---------------------------- MODULE Spec2Model ----------------------------
(***************************************************************************)
(* Node catalog builder and query service of n8n-cli-toolkit/mcp-server:   *)
(* the package scanner (node-loader.ts), the rebuild script that fills the *)
(* SQLite catalog (rebuild, extract* helpers) and the read-only query      *)
(* service (N8nNodeService) with the search_n8n_nodes tool handler.        *)
(*                                                                         *)
(* Text is a sequence of one-character strings, so that LIKE, includes,    *)
(* replace, toString, parseFloat and JSON.parse are computed character by  *)
(* character.  A version number is an integer count of tenths (2.6 is 26). *)
(***************************************************************************)
EXTENDS Integers, Sequences, FiniteSets, TLC

(***************************************************************************)
(* Text helpers (JavaScript String / SQLite text semantics).               *)
(***************************************************************************)

\* an absent (undefined, null, SQL NULL) text or array
NULL == <<"<null>">>

UpperLetters == <<"A","B","C","D","E","F","G","H","I","J","K","L","M",
                  "N","O","P","Q","R","S","T","U","V","W","X","Y","Z">>

LowerLetters == <<"a","b","c","d","e","f","g","h","i","j","k","l","m",
                  "n","o","p","q","r","s","t","u","v","w","x","y","z">>

\* sqlite3 LIKE folds the ASCII letters only
LowerChar(c) ==
    IF \E i \in 1..Len(UpperLetters) : UpperLetters[i] = c
    THEN LowerLetters[CHOOSE i \in 1..Len(UpperLetters) : UpperLetters[i] = c]
    ELSE c

IsPrefixAt(s, pat, i) ==
    /\ i + Len(pat) - 1 <= Len(s)
    /\ \A k \in 1..Len(pat) : s[i + k - 1] = pat[k]

\* a mutation of Includes: only at the start of the string
Includes_AtStart(s, pat) == IsPrefixAt(s, pat, 1)

\* String.prototype.includes
Includes(s, pat) == \E i \in 1..(Len(s) + 1) : IsPrefixAt(s, pat, i)

\* String.prototype.replace(string, string): the first occurrence only
ReplaceFirst(s, pat, rep) ==
    IF ~Includes(s, pat) THEN s
    ELSE LET i == CHOOSE j \in 1..(Len(s) + 1) :
                      /\ IsPrefixAt(s, pat, j)
                      /\ \A k \in 1..(j - 1) : ~IsPrefixAt(s, pat, k)
         IN  SubSeq(s, 1, i - 1) \o rep \o SubSeq(s, i + Len(pat), Len(s))

\* String.prototype.replace(/^prefix/, '')
StripPrefix(s, pat) ==
    IF IsPrefixAt(s, pat, 1) THEN SubSeq(s, Len(pat) + 1, Len(s)) ELSE s

RECURSIVE LikeMatch(_, _)
\* SQLite's LIKE: % is any run of characters, _ is any one character, every
\* other character matches itself without regard to ASCII case
LikeMatch(pat, txt) ==
    IF pat = <<>> THEN txt = <<>>
    ELSE IF Head(pat) = "%"
         THEN \/ LikeMatch(Tail(pat), txt)
              \/ (txt # <<>> /\ LikeMatch(pat, Tail(txt)))
    ELSE IF Head(pat) = "_"
         THEN txt # <<>> /\ LikeMatch(Tail(pat), Tail(txt))
    ELSE /\ txt # <<>>
         /\ LowerChar(Head(pat)) = LowerChar(Head(txt))
         /\ LikeMatch(Tail(pat), Tail(txt))

\* col LIKE ? on a nullable TEXT column: NULL LIKE x is NULL, which is not true
ColumnLike(col, pat) == col # NULL /\ LikeMatch(pat, col)

(***************************************************************************)
(* Numbers and their text forms.                                           *)
(***************************************************************************)

Digits == <<"0","1","2","3","4","5","6","7","8","9">>

NaN == 0 - 1

IsDigit(c) == \E d \in 1..Len(Digits) : Digits[d] = c

DigitValue(c) == (CHOOSE d \in 1..Len(Digits) : Digits[d] = c) - 1

RECURSIVE IntToStr(_)
IntToStr(n) ==
    IF n < 10 THEN <<Digits[n + 1]>>
    ELSE IntToStr(n \div 10) \o <<Digits[(n % 10) + 1]>>

\* Number.prototype.toString of a number given in tenths: 20 is "2", 26 is "2.6"
NumToStr(v) ==
    IF v % 10 = 0 THEN IntToStr(v \div 10)
    ELSE IntToStr(v \div 10) \o <<".">> \o <<Digits[(v % 10) + 1]>>

RECURSIVE DigitRun(_)
\* the longest run of digits that starts the text
DigitRun(s) ==
    IF s # <<>> /\ IsDigit(Head(s)) THEN <<Head(s)>> \o DigitRun(Tail(s)) ELSE <<>>

RECURSIVE DigitsToInt(_)
DigitsToInt(ds) ==
    IF ds = <<>> THEN 0
    ELSE 10 * DigitsToInt(SubSeq(ds, 1, Len(ds) - 1)) + DigitValue(ds[Len(ds)])

\* parseInt in place of parseFloat: the fraction is dropped
ParseFloat_Truncates(s) ==
    IF DigitRun(s) = <<>> THEN NaN ELSE 10 * DigitsToInt(DigitRun(s))

\* parseFloat: the longest numeric prefix (digits, then optionally a point and
\* digits), NaN when there is none; the value in tenths
ParseFloat(s) ==
    LET ip   == DigitRun(s)
        rest == SubSeq(s, Len(ip) + 1, Len(s))
        fp   == IF rest # <<>> /\ Head(rest) = "." THEN DigitRun(Tail(rest)) ELSE <<>>
    IN  IF ip = <<>> THEN NaN
        ELSE 10 * DigitsToInt(ip) + (IF fp = <<>> THEN 0 ELSE DigitValue(fp[1]))

\* the text is one complete number literal
IsNumberText(s) ==
    LET ip   == DigitRun(s)
        rest == SubSeq(s, Len(ip) + 1, Len(s))
    IN  /\ ip # <<>>
        /\ \/ rest = <<>>
           \/ /\ Head(rest) = "."
              /\ DigitRun(Tail(rest)) # <<>>
              /\ Len(DigitRun(Tail(rest))) = Len(rest) - 1

\* Number(key) of an object key that is a number literal
ToNumber(s) == IF IsNumberText(s) THEN ParseFloat(s) ELSE NaN

RECURSIVE InsertDesc(_, _)
InsertDesc(x, sorted) ==
    IF sorted = <<>> THEN <<x>>
    ELSE IF x - Head(sorted) > 0 THEN <<x>> \o sorted
    ELSE <<Head(sorted)>> \o InsertDesc(x, Tail(sorted))

RECURSIVE SortDesc(_)
\* Array.prototype.sort((a, b) => b - a): stable, greatest first
SortDesc(s) ==
    IF s = <<>> THEN <<>>
    ELSE InsertDesc(s[Len(s)], SortDesc(SubSeq(s, 1, Len(s) - 1)))

RECURSIVE JoinNums(_)
JoinNums(s) ==
    IF s = <<>> THEN <<>>
    ELSE IF Len(s) = 1 THEN NumToStr(s[1])
    ELSE NumToStr(s[1]) \o <<",">> \o JoinNums(Tail(s))

\* JSON.stringify of an array of numbers
StringifyNumArray(s) == <<"[">> \o JoinNums(s) \o <<"]">>

RECURSIVE SplitComma(_)
\* the comma-separated pieces of a text
SplitComma(s) ==
    IF \A i \in 1..Len(s) : s[i] # ","
    THEN <<s>>
    ELSE LET i == CHOOSE j \in 1..Len(s) :
                      s[j] = "," /\ \A k \in 1..(j - 1) : s[k] # ","
         IN  <<SubSeq(s, 1, i - 1)>> \o SplitComma(SubSeq(s, i + 1, Len(s)))

\* JSON.parse of a stored version text: a number, an array of numbers, or a
\* SyntaxError (ok = FALSE)
JsonParseVersion(s) ==
    IF IsNumberText(s)
    THEN [ok |-> TRUE, isArray |-> FALSE, items |-> <<ParseFloat(s)>>]
    ELSE IF Len(s) >= 2 /\ s[1] = "[" /\ s[Len(s)] = "]"
    THEN LET inner == SubSeq(s, 2, Len(s) - 1)
             parts == IF inner = <<>> THEN <<>> ELSE SplitComma(inner)
         IN  IF \A i \in 1..Len(parts) : IsNumberText(parts[i])
             THEN [ok |-> TRUE, isArray |-> TRUE,
                   items |-> [i \in 1..Len(parts) |-> ParseFloat(parts[i])]]
             ELSE [ok |-> FALSE, isArray |-> FALSE, items |-> <<>>]
    ELSE [ok |-> FALSE, isArray |-> FALSE, items |-> <<>>]


(***************************************************************************)
(* Values of the JavaScript side.  An absent (undefined / null) text or    *)
(* array is NULL; an optional number is a tagged record.                   *)
(***************************************************************************)

\* JavaScript truthiness of an optional string: undefined and '' are falsy
TruthyText(x) == x # NULL /\ x # <<>>

\* JavaScript truthiness of an optional array or object: only absence is falsy
TruthyObj(x) == x # NULL

NoVersion == [t |-> "none"]
NumVersion(n) == [t |-> "num", n |-> n]
ArrVersion(a) == [t |-> "arr", a |-> a]
\* description.version given as a string
StrVersion(s) == [t |-> "str", s |-> s]

\* JSON.stringify of an object tree, kept as the tree under a JSON tag
Stringify(v) == <<"json", v>>

T_base == <<"n","8","n","-","n","o","d","e","s","-","b","a","s","e">>
T_langchain == <<"@","n","8","n","/","n","8","n","-","n","o","d","e","s","-","l","a","n","g","c","h","a","i","n">>
T_scope == <<"@","n","8","n","/">>
T_n8n == <<"n","8","n","-">>
T_unknown == <<"u","n","k","n","o","w","n">>
T_misc == <<"m","i","s","c">>
T_slack == <<"s","l","a","c","k">>
T_Slack == <<"S","l","a","c","k">>
T_webhook == <<"w","e","b","h","o","o","k">>
T_Webhook == <<"W","e","b","h","o","o","k">>
T_set == <<"s","e","t">>
T_Set == <<"S","e","t">>
T_agent == <<"a","g","e","n","t">>
T_Agent == <<"A","g","e","n","t">>
T_trigger == <<"t","r","i","g","g","e","r">>
T_output == <<"o","u","t","p","u","t">>
T_input == <<"i","n","p","u","t">>
T_AI == <<"A","I">>
T_chat == <<"C","h","a","t">>
T_msg == <<"m","s","g">>
T_hook == <<"H","o","o","k">>
T_resource == <<"r","e","s","o","u","r","c","e">>
T_operation == <<"o","p","e","r","a","t","i","o","n">>
T_channel == <<"c","h","a","n","n","e","l">>
T_post == <<"p","o","s","t">>
T_api == <<"s","l","a","c","k","A","p","i">>
T_default == <<"d","e","f","a","u","l","t">>
T_declarative == <<"d","e","c","l","a","r","a","t","i","v","e">>
T_programmatic == <<"p","r","o","g","r","a","m","m","a","t","i","c">>

T_slash == <<"/">>
T_nodeJs == <<".","n","o","d","e",".","j","s">>
T_nodeTs == <<".","n","o","d","e",".","t","s">>
P_Slack == <<"n","/","S","l","a","c","k",".","n","o","d","e",".","j","s">>
P_SlackV1 == <<"n","/","v","1","/","S","l","a","c","k","V","1",".","n","o","d","e",".","j","s">>
P_Webhook == <<"n","/","W","e","b","h","o","o","k",".","n","o","d","e",".","t","s">>
P_Set == <<"S","e","t",".","n","o","d","e",".","j","s">>
P_Gone == <<"n","/","G","o","n","e",".","n","o","d","e",".","j","s">>
P_Empty == <<"n","/","E","m","p","t","y",".","n","o","d","e",".","j","s">>
P_Broken == <<"n","/","B","r","o","k","e","n",".","n","o","d","e",".","j","s">>
P_Agent == <<"n","/","A","g","e","n","t",".","n","o","d","e",".","j","s">>
T_SlackV1 == <<"S","l","a","c","k","V","1">>
T_Broken == <<"B","r","o","k","e","n">>
P_BrokenToo == <<"n","/","B","r","o","k","e","n","T","o","o",".","n","o","d","e",".","j","s">>
P_Odd == <<"n","/","O","d","d",".","n","o","d","e",".","j","s">>
P_Opaque == <<"n","/","O","p","a","q","u","e",".","n","o","d","e",".","j","s">>
T_odd == <<"o","d","d">>
T_Odd == <<"O","d","d">>
T_opaque == <<"o","p","a","q","u","e">>
P_Old == <<"n","/","O","l","d",".","n","o","d","e",".","j","s">>
T_poller == <<"p","o","l","l","e","r">>
T_cron == <<"c","r","o","n">>
T_timer == <<"t","i","m","e","r">>
T_hooked == <<"h","o","o","k","e","d">>
T_webhookRelay == <<"w","e","b","h","o","o","k","R","e","l","a","y">>
T_respondToWebhook == <<"r","e","s","p","o","n","d","T","o","W","e","b","h","o","o","k">>
T_mixed == <<"m","i","x","e","d">>
T_old == <<"o","l","d">>
T_Old == <<"O","l","d">>
T_Opaque == <<"O","p","a","q","u","e">>

\* an absent object, or array of objects
NoObj == [absent |-> TRUE]

TruthyRec(x) == x # NoObj

Arr(items) == [items |-> items]

\* an object that is not an array, where the code reads an array
NonArrayObj == [nonArray |-> TRUE]

\* Array.isArray
IsArray(x) == x # NoObj /\ x # NonArrayObj

\* an object where the code reads a text: truthy, and no value SQLite can bind
OBJ == <<"<object>">>

(***************************************************************************)
(* The node classes that the installed packages can export.                *)
(***************************************************************************)

\* the description {} of getNodeDescription's fallbacks
EmptyDescription ==
    [name |-> NULL, displayName |-> NULL, description |-> NULL, group |-> NULL,
     routing |-> FALSE, properties |-> NoObj, credentials |-> NoObj,
     polling |-> FALSE, trigger |-> FALSE, webhook |-> FALSE,
     subtitle |-> NULL, codex |-> NoObj, hints |-> NULL, version |-> NoVersion]

Param(name, displayName, description, options) ==
    [name |-> name, displayName |-> displayName, description |-> description,
     options |-> options]

NoInstance ==
    [description |-> NoObj, baseDescription |-> NoObj, nodeVersions |-> NULL,
     getNodeType |-> FALSE]

PlainClass(desc) ==
    [isFunction |-> TRUE, ctorThrows |-> FALSE, staticNodeVersions |-> FALSE,
     staticGetNodeType |-> FALSE, staticDescription |-> NoObj,
     instance |-> [NoInstance EXCEPT !.description = desc]]

ClassIds == {"Slack", "SlackV1", "Webhook", "Set", "Broken", "Agent", "Odd", "Opaque",
             "Old", "Poller", "Cron", "Timer", "Hooked", "Relay", "Respond", "Mixed",
             "OpFirst", "ResFirst", "ResBare", "OpBare", "NoOps", "OpEmpty"}

\* the two option sets and the parameters the operation classes declare
O_post == Arr(<<[name |-> T_post, value |-> T_post]>>)
O_channel == Arr(<<[name |-> T_channel, value |-> T_channel]>>)

\* a class whose description has this name, group and capabilities
Capable(name, group, polling, trigger, webhook) ==
    PlainClass([EmptyDescription EXCEPT !.name = name, !.displayName = name, !.group = group,
                                        !.polling = polling, !.trigger = trigger, !.webhook = webhook,
                                        !.version = NumVersion(10)])

\* a class whose description has these properties
WithProperties(properties) ==
    PlainClass([EmptyDescription EXCEPT !.name = T_mixed, !.displayName = T_mixed, !.group = <<T_input>>,
                                        !.properties = Arr(properties), !.version = NumVersion(10)])

ClassDef(id) ==
    CASE id = "Slack" ->
           PlainClass([EmptyDescription EXCEPT
               !.name = T_slack, !.displayName = T_Slack, !.description = T_chat,
               !.group = <<T_output>>,
               !.version = ArrVersion(<<10, 20, 26>>),
               !.properties = Arr(<<
                   Param(T_resource, T_resource, T_msg,
                         Arr(<<[name |-> T_channel, value |-> T_channel]>>)),
                   Param(T_operation, T_operation, NULL,
                         Arr(<<[name |-> T_post, value |-> T_post]>>))>>),
               !.credentials = Arr(<<[name |-> T_api, required |-> TRUE]>>)])
      [] id = "SlackV1" ->
           PlainClass([EmptyDescription EXCEPT
               !.name = T_slack, !.displayName = T_SlackV1, !.description = T_msg,
               !.group = <<T_input>>,
               !.version = NumVersion(10)])
      [] id = "Webhook" ->
           [isFunction |-> TRUE, ctorThrows |-> FALSE, staticNodeVersions |-> FALSE,
            staticGetNodeType |-> FALSE, staticDescription |-> NoObj,
            instance |->
              [description |-> [EmptyDescription EXCEPT
                   !.name = T_webhook, !.displayName = T_Webhook,
                   !.description = T_hook, !.group = <<T_trigger>>,
                   !.webhook = TRUE, !.version = NoVersion],
               baseDescription |-> NoObj,
               nodeVersions |-> <<<<"1">>, <<"2">>, <<"1", ".", "1">>>>,
               getNodeType |-> TRUE]]
      [] id = "Set" ->
           PlainClass([EmptyDescription EXCEPT
               !.name = T_set, !.displayName = T_Set,
               !.group = <<T_input>>,
               !.version = ArrVersion(<<20, 10, 20>>)])
      [] id = "Broken" ->
           [isFunction |-> TRUE, ctorThrows |-> TRUE, staticNodeVersions |-> FALSE,
            staticGetNodeType |-> FALSE, staticDescription |-> NoObj,
            instance |-> NoInstance]
      [] id = "Agent" ->
           PlainClass([EmptyDescription EXCEPT
               !.name = T_agent, !.displayName = T_Agent, !.description = T_AI,
               !.group = <<T_AI>>,
               !.version = NumVersion(26)])
      [] id = "Odd" ->
           PlainClass([EmptyDescription EXCEPT
               !.name = T_odd, !.displayName = T_Odd, !.description = T_msg,
               !.group = <<T_input>>,
               !.properties = NonArrayObj,
               !.version = NumVersion(10)])
      [] id = "Old" ->
           PlainClass([EmptyDescription EXCEPT
               !.name = T_old, !.displayName = T_Old,
               !.group = <<T_AI>>,
               !.properties = Arr(<<Param(T_operation, T_operation, NULL,
                                          Arr(<<[name |-> T_post, value |-> T_post]>>))>>),
               !.version = StrVersion(<<"v", "2">>)])
      [] id = "Poller" -> Capable(T_poller, <<T_input>>, TRUE, FALSE, FALSE)
      [] id = "Cron" -> Capable(T_cron, <<T_input>>, FALSE, TRUE, FALSE)
      [] id = "Timer" -> Capable(T_timer, <<T_trigger>>, FALSE, FALSE, FALSE)
      [] id = "Hooked" -> Capable(T_hooked, <<T_input>>, FALSE, FALSE, TRUE)
      [] id = "Relay" -> Capable(T_webhookRelay, <<T_input>>, FALSE, FALSE, FALSE)
      [] id = "Respond" -> Capable(T_respondToWebhook, <<T_output>>, FALSE, FALSE, FALSE)
      [] id = "Mixed" -> Capable(T_mixed, <<T_output, T_trigger>>, FALSE, FALSE, FALSE)
      [] id = "OpFirst" -> WithProperties(<<Param(T_operation, T_operation, NULL, O_post), Param(T_resource, T_resource, NULL, O_channel)>>)
      [] id = "ResFirst" -> WithProperties(<<Param(T_channel, T_channel, NULL, NoObj), Param(T_resource, T_resource, NULL, O_channel), Param(T_operation, T_operation, NULL, O_post)>>)
      [] id = "ResBare" -> WithProperties(<<Param(T_resource, T_resource, NULL, NoObj), Param(T_operation, T_operation, NULL, O_post)>>)
      [] id = "OpBare" -> WithProperties(<<Param(T_operation, T_operation, NULL, NoObj)>>)
      [] id = "NoOps" -> WithProperties(<<Param(T_channel, T_channel, T_msg, O_channel)>>)
      [] id = "OpEmpty" -> WithProperties(<<Param(T_operation, T_operation, NULL, Arr(<<>>))>>)
      [] id = "Opaque" ->
           PlainClass([EmptyDescription EXCEPT
               !.name = T_opaque, !.displayName = T_Opaque,
               !.group = <<OBJ>>,
               !.version = NumVersion(10)])

(***************************************************************************)
(* The installed packages: per configured package, whether its             *)
(* package.json resolves, and the node modules its n8n.nodes lists.        *)
(***************************************************************************)

\* NodeLoader.CORE_PACKAGES
CORE_PACKAGES == <<[name |-> T_base, path |-> T_base],
                   [name |-> T_langchain, path |-> T_langchain]>>

\* a module file: whether require() of it throws, and what it exports
Module(path, throws, exports) == [path |-> path, throws |-> throws, exports |-> exports]

Export(key, cls) == [key |-> key, cls |-> cls]

M_Slack == Module(P_Slack, FALSE, <<Export(T_Slack, "Slack")>>)
M_SlackV1 == Module(P_SlackV1, FALSE, <<Export(T_default, "SlackV1")>>)
M_Webhook == Module(P_Webhook, FALSE, <<Export(T_Webhook, "Webhook")>>)
M_Set == Module(P_Set, FALSE, <<Export(T_Set, "Set")>>)
M_Gone == Module(P_Gone, TRUE, <<>>)
M_Empty == Module(P_Empty, FALSE, <<>>)
M_Broken == Module(P_Broken, FALSE, <<Export(T_Broken, "Broken")>>)
M_Agent == Module(P_Agent, FALSE, <<Export(T_Agent, "Agent")>>)
M_BrokenToo == Module(P_BrokenToo, FALSE, <<Export(T_default, "Broken")>>)
M_Odd == Module(P_Odd, FALSE, <<Export(T_Odd, "Odd")>>)
M_Opaque == Module(P_Opaque, FALSE, <<Export(T_Opaque, "Opaque")>>)
M_Old == Module(P_Old, FALSE, <<Export(T_Old, "Old")>>)

Manifest(nodes) == [found |-> TRUE, isArray |-> TRUE, nodes |-> nodes]

NoManifest == [found |-> FALSE, isArray |-> FALSE, nodes |-> <<>>]

\* n8n.nodes given as an object instead of a list
ObjectManifest == [found |-> TRUE, isArray |-> FALSE, nodes |-> <<>>]

I_mixed == <<Manifest(<<M_Slack, M_Gone, M_Webhook>>), Manifest(<<M_Agent>>)>>
I_noBase == <<NoManifest, Manifest(<<M_Agent, M_Set>>)>>
I_dup == <<Manifest(<<M_Slack, M_SlackV1, M_Set>>), ObjectManifest>>
I_broken == <<Manifest(<<M_Empty, M_Broken, M_SlackV1, M_Slack>>), Manifest(<<>>)>>
I_faulty == <<Manifest(<<M_Broken, M_Odd, M_BrokenToo, M_Opaque, M_SlackV1>>), Manifest(<<M_Old, M_Agent>>)>>

Installations == {I_mixed, I_noBase, I_dup, I_broken, I_faulty}

(***************************************************************************)
(* Package scanner: N8nNodeLoader.                                         *)
(***************************************************************************)

EndsWith(s, suffix) ==
    Len(s) >= Len(suffix) /\ IsPrefixAt(s, suffix, Len(s) - Len(suffix) + 1)

\* the position of the last "/" of a text, 0 when it has none
LastSlash(s) ==
    IF \A i \in 1..Len(s) : s[i] # "/" THEN 0
    ELSE CHOOSE i \in 1..Len(s) : s[i] = "/" /\ \A k \in (i + 1)..Len(s) : s[k] # "/"

\* path.basename(p, ext)
Basename(path, ext) ==
    LET base == SubSeq(path, LastSlash(path) + 1, Len(path))
    IN  IF EndsWith(base, ext) /\ base # ext
        THEN SubSeq(base, 1, Len(base) - Len(ext))
        ELSE base

\* nodePath.match(/\/([^\/]+)\.node\.(js|ts)$/), else path.basename(nodePath, '.node.js')
NodeNameOf(nodePath) ==
    LET stem == SubSeq(nodePath, 1, Len(nodePath) - Len(T_nodeJs))
    IN  IF /\ (EndsWith(nodePath, T_nodeJs) \/ EndsWith(nodePath, T_nodeTs))
           /\ LastSlash(stem) > 0
           /\ LastSlash(stem) < Len(stem)
        THEN SubSeq(stem, LastSlash(stem) + 1, Len(stem))
        ELSE Basename(nodePath, T_nodeJs)

NoClass == "none"

\* nodeModule.default || nodeModule[nodeName] || Object.values(nodeModule)[0]
PickClass(exports, nodeName) ==
    IF \E i \in 1..Len(exports) : exports[i].key = T_default
    THEN exports[CHOOSE i \in 1..Len(exports) : exports[i].key = T_default].cls
    ELSE IF \E i \in 1..Len(exports) : exports[i].key = nodeName
    THEN exports[CHOOSE i \in 1..Len(exports) : exports[i].key = nodeName].cls
    ELSE IF exports # <<>> THEN exports[1].cls
    ELSE NoClass

LoadedNode(packageName, nodeName, cls) ==
    [packageName |-> packageName, nodeName |-> nodeName, NodeClass |-> cls]

\* the test if (NodeClass) left out: a module without a class is pushed too
LoadOneModule_KeepsClassless(packageName, module) ==
    IF module.throws THEN <<>>
    ELSE <<LoadedNode(packageName, NodeNameOf(module.path),
                      PickClass(module.exports, NodeNameOf(module.path)))>>

\* one iteration of loadPackageNodes' loop: the entries the module adds to nodes
LoadOneModule(packageName, module) ==
    IF module.throws THEN <<>>
    ELSE LET nodeName == NodeNameOf(module.path)
             cls      == PickClass(module.exports, nodeName)
         IN  IF cls # NoClass THEN <<LoadedNode(packageName, nodeName, cls)>> ELSE <<>>

(***************************************************************************)
(* Descriptor extraction: the helpers of the rebuild script.               *)
(***************************************************************************)

\* new nodeClass() throws: the value is no constructor, or the constructor throws
NewThrows(cls) == ~cls.isFunction \/ cls.ctorThrows

OrEmpty(desc) == IF TruthyRec(desc) THEN desc ELSE EmptyDescription

getNodeDescription(cls) ==
    IF cls.staticNodeVersions \/ cls.staticGetNodeType
    THEN IF NewThrows(cls) THEN EmptyDescription
         ELSE IF TruthyRec(cls.instance.description) THEN cls.instance.description
         ELSE OrEmpty(cls.instance.baseDescription)
    ELSE IF cls.isFunction
    THEN IF NewThrows(cls) THEN EmptyDescription
         ELSE OrEmpty(cls.instance.description)
    ELSE OrEmpty(cls.staticDescription)

\* packageName.replace('@n8n/', '').replace('n8n-', '')
PackagePrefix(packageName) ==
    ReplaceFirst(ReplaceFirst(packageName, T_scope, <<>>), T_n8n, <<>>)

extractNodeType(description, packageName) ==
    IF ~TruthyText(description.name) THEN T_unknown
    ELSE IF Includes(description.name, <<".">>) THEN description.name
    ELSE PackagePrefix(packageName) \o <<".">> \o description.name

isVersionedNode(cls) ==
    IF cls.staticNodeVersions \/ cls.staticGetNodeType THEN TRUE
    ELSE IF NewThrows(cls) THEN FALSE
    ELSE TruthyObj(cls.instance.nodeVersions) \/ cls.instance.getNodeType

\* Object.keys(instance.nodeVersions).map(Number)
VersionKeys(nodeVersions) ==
    [i \in 1..Len(nodeVersions) |-> ToNumber(nodeVersions[i])]

SortVersions(a) == SortDesc(a)

extractVersion(cls) ==
    IF NewThrows(cls) THEN <<"1">>
    ELSE IF TruthyObj(cls.instance.nodeVersions)
    THEN StringifyNumArray(SortVersions(VersionKeys(cls.instance.nodeVersions)))
    ELSE LET desc == IF TruthyRec(cls.instance.description)
                     THEN cls.instance.description
                     ELSE cls.instance.baseDescription
             ver  == IF TruthyRec(desc) THEN desc.version ELSE NoVersion
         IN  IF ver.t = "arr" THEN StringifyNumArray(SortVersions(ver.a))
             ELSE IF ver.t = "num" THEN NumToStr(ver.n)
             ELSE IF ver.t = "str" /\ ver.s # <<>> THEN ver.s
             ELSE <<"1">>

IsOperationField(p) == p.name = T_operation \/ p.name = T_resource

\* description.properties.find is not a function: a TypeError
extractOperationsThrows(description) ==
    TruthyRec(description.properties) /\ ~IsArray(description.properties)

\* a mutation of extractOperations: the options of the last operation field
extractOperations_Last(description) ==
    IF ~TruthyRec(description.properties) THEN NULL
    ELSE LET props == description.properties.items
         IN  IF \A i \in 1..Len(props) : ~IsOperationField(props[i]) THEN NULL
             ELSE LET f == props[CHOOSE i \in 1..Len(props) :
                                   /\ IsOperationField(props[i])
                                   /\ \A k \in (i + 1)..Len(props) : ~IsOperationField(props[k])]
                  IN  IF TruthyRec(f.options) THEN Stringify(f.options.items) ELSE NULL

extractOperations(description) ==
    IF ~TruthyRec(description.properties) THEN NULL
    ELSE LET props == description.properties.items
         IN  IF \A i \in 1..Len(props) : ~IsOperationField(props[i]) THEN NULL
             ELSE LET f == props[CHOOSE i \in 1..Len(props) :
                                   /\ IsOperationField(props[i])
                                   /\ \A k \in 1..(i - 1) : ~IsOperationField(props[k])]
                  IN  IF TruthyRec(f.options) THEN Stringify(f.options.items) ELSE NULL

RECURSIVE Join(_, _)
\* Array.prototype.join of an array of texts
Join(parts, sep) ==
    IF parts = <<>> THEN <<>>
    ELSE IF Len(parts) = 1 THEN parts[1]
    ELSE parts[1] \o sep \o Join(Tail(parts), sep)

T_undefined == <<"u","n","d","e","f","i","n","e","d">>
NL == <<"\n">>

\* a value inside a template literal
Interp(x) == IF x = NULL THEN T_undefined ELSE x

OrText(a, b) == IF TruthyText(a) THEN a ELSE b

RECURSIVE SelectDescribed(_)
\* properties.filter(p => p.description)
SelectDescribed(props) ==
    IF props = <<>> THEN <<>>
    ELSE IF TruthyText(Head(props).description)
         THEN <<Head(props)>> \o SelectDescribed(Tail(props))
         ELSE SelectDescribed(Tail(props))

\* an absent codex section
NoCodex == [categories |-> NULL, subcategories |-> NoObj, resources |-> NoObj,
            alias |-> NULL]

\* a mutation of buildCodexDocumentation: the codex gives no text
buildCodexDocumentation_Nothing(codex) == NULL

buildCodexDocumentation(codex) ==
    IF ~TruthyRec(codex) THEN NULL
    ELSE LET p1 == IF TruthyObj(codex.categories)
                   THEN <<<<"\n","#","#"," ","C","a","t","e","g","o","r","i","e","s","\n","\n">> \o Join(codex.categories, <<",", " ">>)>>
                   ELSE <<>>
             p2 == IF TruthyRec(codex.subcategories)
                   THEN <<<<"\n","#","#"," ","U","s","e"," ","C","a","s","e","s","\n","\n">> \o
                          Join([i \in 1..Len(codex.subcategories.items) |->
                                  <<"-", " ">> \o codex.subcategories.items[i].k \o <<":", " ">>
                                  \o Join(codex.subcategories.items[i].v, <<",">>)], NL)>>
                   ELSE <<>>
             p3 == IF TruthyRec(codex.resources) /\ IsArray(codex.resources)
                   THEN <<<<"\n","#","#"," ","R","e","s","o","u","r","c","e","s","\n","\n">> \o
                          Join([i \in 1..Len(codex.resources.items) |->
                                  <<"-", " ", "[">> \o codex.resources.items[i].label \o <<"]", "(">>
                                  \o codex.resources.items[i].url \o <<")">>], NL)>>
                   ELSE <<>>
             p4 == IF TruthyObj(codex.alias) /\ Len(codex.alias) > 0
                   THEN <<<<"\n","#","#"," ","A","l","s","o"," ","k","n","o","w","n"," ","a","s","\n","\n">> \o Join(codex.alias, <<",", " ">>)>>
                   ELSE <<>>
             parts == p1 \o p2 \o p3 \o p4
         IN  IF Len(parts) > 0 THEN Join(parts, NL) ELSE NULL

\* a mutation of DocsLookup: the first entry of the map, whatever its type
DocsLookup_AnyType(githubDocs, nodeType) ==
    IF githubDocs # <<>> THEN githubDocs[1].content ELSE NULL

\* githubDocs[nodeType]: the entry of the map, NULL when it has none
DocsLookup(githubDocs, nodeType) ==
    IF \E i \in 1..Len(githubDocs) : githubDocs[i].type = nodeType
    THEN githubDocs[CHOOSE i \in 1..Len(githubDocs) : githubDocs[i].type = nodeType].content
    ELSE NULL

extractDocumentation(description, nodeType, githubDocs) ==
    IF TruthyText(DocsLookup(githubDocs, nodeType)) THEN DocsLookup(githubDocs, nodeType)
    ELSE LET d1 == IF TruthyText(description.description)
                   THEN <<<<"#", " ">> \o Interp(OrText(description.displayName, description.name))
                          \o NL \o NL \o description.description \o NL>>
                   ELSE <<>>
             d2 == IF TruthyText(description.subtitle)
                   THEN <<<<"#", "#", " ">> \o description.subtitle \o NL>>
                   ELSE <<>>
             described == IF TruthyRec(description.properties) /\ IsArray(description.properties)
                          THEN SelectDescribed(description.properties.items)
                          ELSE <<>>
             propertyDocs == Join([i \in 1..Len(described) |->
                                     <<"*", "*">> \o Interp(OrText(described[i].displayName, described[i].name))
                                     \o <<"*", "*", ":", " ">> \o described[i].description], NL)
             d3 == IF TruthyText(propertyDocs)
                   THEN <<<<"\n","#","#"," ","P","a","r","a","m","e","t","e","r","s","\n","\n">> \o propertyDocs \o NL>>
                   ELSE <<>>
             codexDoc == buildCodexDocumentation(description.codex)
             d4 == IF TruthyText(codexDoc) THEN <<codexDoc>> ELSE <<>>
             d5 == IF TruthyText(description.hints)
                   THEN <<<<"\n","#","#"," ","H","i","n","t","s","\n","\n">> \o description.hints \o NL>>
                   ELSE <<>>
             docParts == d1 \o d2 \o d3 \o d4 \o d5
         IN  IF Len(docParts) > 0 THEN Join(docParts, NL) ELSE NULL

(***************************************************************************)
(* The catalog store: the SQLite file data/nodes.db.                       *)
(***************************************************************************)

T_tagPrefix == <<"n","8","n","@">>
T_tagDefault == <<"n","8","n","@","2",".","0",".","3">>
T_tagOther == <<"n","8","n","@","2",".","1",".","0">>
T_n8n_version == <<"n","8","n","_","v","e","r","s","i","o","n">>
T_rebuilt_at == <<"r","e","b","u","i","l","t","_","a","t">>
T_source == <<"s","o","u","r","c","e">>
T_localGithub == <<"l","o","c","a","l","+","g","i","t","h","u","b">>
T_docs_extracted == <<"d","o","c","s","_","e","x","t","r","a","c","t","e","d">>
T_slackType == <<"n","o","d","e","s","-","b","a","s","e",".","s","l","a","c","k">>
T_readme == <<"S","l","a","c","k"," ","A","P","I">>

\* the values N8N_VERSION takes: the default and one set in the environment
Tags == {T_tagDefault, T_tagOther}

\* the maps fetchDocumentationFromGitHub can return
DocMaps == {<<>>, <<[type |-> T_slackType, content |-> T_readme]>>}

\* what a run of the script finds: the installed packages, N8N_VERSION, and
\* the documentation GitHub serves for that tag
Environment(i, tg, docs) == [inst |-> i, tag |-> tg, github |-> docs]

Environments ==
    { Environment(I_mixed, T_tagDefault, <<[type |-> T_slackType, content |-> T_readme]>>),
      Environment(I_mixed, T_tagDefault, <<>>),
      Environment(I_noBase, T_tagOther, <<>>),
      Environment(I_dup, T_tagDefault, <<[type |-> T_slackType, content |-> T_readme]>>),
      Environment(I_broken, T_tagOther, <<>>),
      Environment(I_faulty, T_tagDefault, <<>>) }

\* new Date().toISOString() / CURRENT_TIMESTAMP at clock value t
TimeText(t) == <<"T">> \o IntToStr(t)

\* the row INSERT OR REPLACE INTO nodes (...) VALUES (...) writes: the columns
\* the statement does not name take the defaults of the schema
NodeRow(nodeType, packageName, displayName, desc, category, documentation, properties, operations, credentials, isVersioned, version, style, isTrigger, isWebhook, t) ==
    [node_type |-> nodeType, package_name |-> packageName,
     display_name |-> displayName, description |-> desc, category |-> category,
     documentation |-> documentation, properties_schema |-> properties,
     operations |-> operations, credentials_required |-> credentials,
     outputs |-> NULL, output_names |-> NULL, development_style |-> style,
     is_ai_tool |-> 0, is_trigger |-> isTrigger, is_webhook |-> isWebhook,
     is_versioned |-> isVersioned, version |-> version,
     updated_at |-> TimeText(t),
     is_tool_variant |-> 0, has_tool_variant |-> 0,
     base_node_type |-> NULL, tool_variant_of |-> NULL]

RECURSIVE WithoutType(_, _)
\* the rows of the table whose primary key is not nodeType
WithoutType(table, nodeType) ==
    IF table = <<>> THEN <<>>
    ELSE IF Head(table).node_type = nodeType THEN WithoutType(Tail(table), nodeType)
    ELSE <<Head(table)>> \o WithoutType(Tail(table), nodeType)

\* INSERT OR IGNORE in place of INSERT OR REPLACE: the earlier row is kept
InsertOrReplace_Ignore(table, row) ==
    IF \E i \in 1..Len(table) : table[i].node_type = row.node_type
    THEN table
    ELSE Append(table, row)

\* INSERT OR REPLACE on the PRIMARY KEY node_type: a conflicting row is deleted,
\* the new row gets the next rowid
InsertOrReplace(table, row) == WithoutType(table, row.node_type) \o <<row>>

\* insert.run binds numbers, strings, bigints, buffers and null, and throws a
\* TypeError on any other value
Bindable(v) == v # OBJ

\* no row: the pass of the loop threw before insert.run wrote one
NoRow == [node_type |-> NULL]

\* description.displayName || description.name || node.nodeName
DisplayNameOf(description, node) ==
    OrText(description.displayName, OrText(description.name, node.nodeName))

\* description.group?.[0] || 'misc'
CategoryOf(description) ==
    IF TruthyObj(description.group) /\ Len(description.group) > 0
       /\ TruthyText(description.group[1])
    THEN description.group[1] ELSE T_misc

\* the pass of the loop for this node throws: in extractOperations, or in
\* insert.run on a value it cannot bind
PassThrows(node) ==
    LET description == getNodeDescription(ClassDef(node.NodeClass))
    IN  \/ extractOperationsThrows(description)
        \/ \E v \in {extractNodeType(description, node.packageName),
                      DisplayNameOf(description, node),
                      OrText(description.description, <<>>),
                      CategoryOf(description)} : ~Bindable(v)

\* the body of the for loop of rebuild for one loaded node: the row it inserts,
\* or that it throws, in extractOperations or in insert.run, and whether it has
\* counted a documentation before that
ExtractRow(node, githubDocs, t) ==
    LET cls         == ClassDef(node.NodeClass)
        description == getNodeDescription(cls)
        nodeType    == extractNodeType(description, node.packageName)
        displayName == DisplayNameOf(description, node)
        desc        == OrText(description.description, <<>>)
        category    == CategoryOf(description)
        documentation == extractDocumentation(description, nodeType, githubDocs)
        properties  == IF ~TruthyRec(description.properties) THEN NULL
                       ELSE IF IsArray(description.properties)
                       THEN Stringify(description.properties.items)
                       ELSE Stringify(description.properties)
        credentials == IF TruthyRec(description.credentials)
                       THEN Stringify(description.credentials.items) ELSE NULL
        isTrigger   == IF description.polling \/ description.trigger \/ category = T_trigger
                       THEN 1 ELSE 0
        isWebhook   == IF description.webhook \/ Includes(nodeType, T_webhook)
                       THEN 1 ELSE 0
    IN  IF PassThrows(node)
        THEN [throws |-> TRUE, row |-> NoRow, hasDoc |-> TruthyText(documentation)]
        ELSE [throws |-> FALSE,
              row |-> NodeRow(nodeType, node.packageName, displayName, desc, category,
                         documentation, properties, extractOperations(description),
                         credentials, IF isVersionedNode(cls) THEN 1 ELSE 0,
                         extractVersion(cls),
                         IF description.routing THEN T_declarative ELSE T_programmatic,
                         isTrigger, isWebhook, t),
              hasDoc |-> TruthyText(documentation)]

\* N8N_VERSION.replace(/^n8n@/, '')
VersionNumber(tag) == StripPrefix(tag, T_tagPrefix)

\* the four metadata rows of a build, in the order rebuild inserts them
MetadataRows(tag, t, docsExtracted) ==
    <<[key |-> T_n8n_version, value |-> VersionNumber(tag)],
      [key |-> T_rebuilt_at, value |-> TimeText(t)],
      [key |-> T_source, value |-> T_localGithub],
      [key |-> T_docs_extracted, value |-> IntToStr(docsExtracted)]>>

(***************************************************************************)
(* Query service: N8nNodeService, and the search_n8n_nodes tool handler.   *)
(***************************************************************************)

Absent == [has |-> FALSE]
Present(v) == [has |-> TRUE, v |-> v]

\* the default of searchNodes' limit parameter and of the tool handler
DEFAULT_LIMIT == 10

\* SELECT * in place of the column list
SearchProjection_AllColumns(r) == r

\* the SELECT list of searchNodes
SearchProjection(r) ==
    [node_type |-> r.node_type, package_name |-> r.package_name,
     display_name |-> r.display_name, description |-> r.description,
     category |-> r.category, is_ai_tool |-> r.is_ai_tool,
     is_trigger |-> r.is_trigger, is_webhook |-> r.is_webhook]

\* the WHERE clause of searchNodes
SearchMatches(r, searchPattern) ==
    \/ ColumnLike(r.node_type, searchPattern)
    \/ ColumnLike(r.display_name, searchPattern)
    \/ ColumnLike(r.description, searchPattern)
    \/ ColumnLike(r.documentation, searchPattern)

RECURSIVE SelectMatching(_, _)
SelectMatching(table, searchPattern) ==
    IF table = <<>> THEN <<>>
    ELSE IF SearchMatches(Head(table), searchPattern)
         THEN <<Head(table)>> \o SelectMatching(Tail(table), searchPattern)
         ELSE SelectMatching(Tail(table), searchPattern)

\* SQLite's LIMIT n: the first n rows, every row when n is negative
SqlLimit(rows, n) ==
    IF n < 0 \/ n >= Len(rows) THEN rows ELSE SubSeq(rows, 1, n)

\* searchNodes(keyword, limit) with its limit parameter given
searchNodes(table, keyword, limit) ==
    LET searchPattern == <<"%">> \o keyword \o <<"%">>
        rows == SqlLimit(SelectMatching(table, searchPattern), limit)
    IN  [i \in 1..Len(rows) |-> SearchProjection(rows[i])]

\* (args as any).limit || 10 of the tool handler: an absent and a zero limit
\* both give the default
ToolLimit(argLimit) ==
    IF argLimit.has /\ argLimit.v # 0 THEN argLimit.v ELSE DEFAULT_LIMIT

\* the limit parameter of searchNodes with its default value
ServiceLimit(argLimit) == IF argLimit.has THEN argLimit.v ELSE DEFAULT_LIMIT

T_legacyBase == <<"n","8","n","-","n","o","d","e","s","-","b","a","s","e",".">>
T_bareBase == <<"n","o","d","e","s","-","b","a","s","e",".">>

\* nodeType.replace('n8n-nodes-base.', 'nodes-base.')
NormalizeType(nodeType) == ReplaceFirst(nodeType, T_legacyBase, T_bareBase)

\* JSON.parse of a stored payload column: Absent when it throws
ParsePayload(text) ==
    IF Len(text) = 2 /\ text[1] = "json" THEN Present(text[2]) ELSE Absent

\* the versions and latest_version getNodeInfo derives from the version column
ParseVersions(version) ==
    IF ~TruthyText(version) THEN [versions |-> NULL, latest_version |-> Absent]
    ELSE LET parsed == JsonParseVersion(version)
         IN  IF parsed.ok
             THEN LET versions == IF parsed.isArray THEN parsed.items
                                  ELSE <<ParseFloat(version)>>
                  IN  [versions |-> versions,
                       latest_version |-> IF Len(versions) > 0
                                          THEN Present(versions[1]) ELSE Absent]
             ELSE [versions |-> <<ParseFloat(version)>>,
                   latest_version |-> Present(ParseFloat(version))]

NotFound == [found |-> FALSE]

getNodeInfo(table, nodeType) ==
    LET normalizedType == NormalizeType(nodeType)
    IN  IF \A i \in 1..Len(table) : table[i].node_type # normalizedType
        THEN NotFound
        ELSE LET result == table[CHOOSE i \in 1..Len(table) :
                                    table[i].node_type = normalizedType]
                 ver    == ParseVersions(result.version)
             IN  [found |-> TRUE, row |-> result,
                  properties |-> IF TruthyObj(result.properties_schema)
                                 THEN ParsePayload(result.properties_schema) ELSE Absent,
                  operations_list |-> IF TruthyObj(result.operations)
                                      THEN ParsePayload(result.operations) ELSE Absent,
                  credentials |-> IF TruthyObj(result.credentials_required)
                                  THEN ParsePayload(result.credentials_required) ELSE Absent,
                  versions |-> ver.versions,
                  latest_version |-> ver.latest_version]

\* the code of a character that is neither a letter nor a digit
PunctuationCode(c) ==
    CASE c = "\n" -> 10 [] c = " " -> 32 [] c = "#" -> 35 [] c = "*" -> 42
      [] c = "+" -> 43 [] c = "," -> 44 [] c = "-" -> 45 [] c = "." -> 46
      [] c = "/" -> 47 [] c = ":" -> 58 [] c = "@" -> 64 [] c = "[" -> 91
      [] c = "]" -> 93 [] c = "_" -> 95

\* the byte a character is stored as
CharCode(c) ==
    IF \E i \in 1..Len(Digits) : Digits[i] = c THEN 47 + (CHOOSE i \in 1..Len(Digits) : Digits[i] = c)
    ELSE IF \E i \in 1..Len(UpperLetters) : UpperLetters[i] = c THEN 64 + (CHOOSE i \in 1..Len(UpperLetters) : UpperLetters[i] = c)
    ELSE IF \E i \in 1..Len(LowerLetters) : LowerLetters[i] = c THEN 96 + (CHOOSE i \in 1..Len(LowerLetters) : LowerLetters[i] = c)
    ELSE PunctuationCode(c)

RECURSIVE TextLess(_, _)
\* SQLite's BINARY collation: a sorts before b
TextLess(a, b) ==
    IF b = <<>> THEN FALSE
    ELSE IF a = <<>> THEN TRUE
    ELSE IF Head(a) = Head(b) THEN TextLess(Tail(a), Tail(b))
    ELSE CharCode(Head(a)) < CharCode(Head(b))

\* the order of ORDER BY: NULL before every text
KeyLess(a, b) ==
    IF a = NULL THEN b # NULL
    ELSE IF b = NULL THEN FALSE
    ELSE TextLess(a, b)

\* a row put into rows that are in order, behind the rows that do not sort
\* after it
InsertByKey(sorted, r, key) ==
    LET n == Cardinality({i \in 1..Len(sorted) : ~KeyLess(r[key], sorted[i][key])})
    IN  SubSeq(sorted, 1, n) \o <<r>> \o SubSeq(sorted, n + 1, Len(sorted))

RECURSIVE OrderBy(_, _)
\* ORDER BY key; rows of equal key stay in the order of the table
OrderBy(rows, key) ==
    IF rows = <<>> THEN <<>>
    ELSE InsertByKey(OrderBy(SubSeq(rows, 1, Len(rows) - 1), key), rows[Len(rows)], key)

RECURSIVE Ascending(_)
\* the texts of a set in ascending order
Ascending(S) ==
    IF S = {} THEN <<>>
    ELSE LET m == CHOOSE x \in S : \A y \in S \ {x} : TextLess(x, y)
         IN  <<m>> \o Ascending(S \ {m})

\* getCategories(): SELECT DISTINCT category ... WHERE category IS NOT NULL
\* ORDER BY category
getCategories(table) == Ascending({table[i].category : i \in 1..Len(table)} \ {NULL})

\* getNodesByCategory(category): WHERE category = ? ORDER BY display_name
getNodesByCategory(table, category) ==
    OrderBy(SelectSeq(table, LAMBDA r : r.category = category), "display_name")

\* a mutation of getAINodes: the rows in the order of the table
getAINodes_Unordered(table) ==
    SelectSeq(table, LAMBDA r : r.is_ai_tool = 1 \/ r.category = T_AI)

\* getAINodes(): WHERE is_ai_tool = 1 OR category = 'AI' ORDER BY display_name
getAINodes(table) ==
    OrderBy(SelectSeq(table, LAMBDA r : r.is_ai_tool = 1 \/ r.category = T_AI), "display_name")

\* getStatistics().totalNodes
TotalNodes(table) == Len(table)

\* getDatabaseVersion(): the value of the n8n_version row, NULL when there is none
getDatabaseVersion(meta) ==
    IF \E i \in 1..Len(meta) : meta[i].key = T_n8n_version
    THEN LET v == meta[CHOOSE i \in 1..Len(meta) : meta[i].key = T_n8n_version].value
         IN  IF TruthyText(v) THEN v ELSE NULL
    ELSE NULL

(***************************************************************************)
(* The state machine: one rebuild process at a time (the script run by     *)
(* npm run rebuild-db) and a query service reading the same file.          *)
(***************************************************************************)

\* the last value of the clock
MaxClock == 1

K_SLACK == <<"S","L","A","C","K">>
K_none == <<"z","z">>
K_wild == <<"_">>

\* the keywords a caller searches for
Keywords == {K_SLACK, K_none, K_wild}

\* the limit argument of a search: left out, negative, zero, positive
LimitArgs == {Absent, Present(0 - 1), Present(0), Present(1)}

T_setType == <<"n","o","d","e","s","-","b","a","s","e",".","s","e","t">>
T_legacySlack == <<"n","8","n","-","n","o","d","e","s","-","b","a","s","e",".","s","l","a","c","k">>
T_agentType == <<"n","o","d","e","s","-","l","a","n","g","c","h","a","i","n",".","a","g","e","n","t">>
T_webhookType == <<"n","o","d","e","s","-","b","a","s","e",".","w","e","b","h","o","o","k">>
T_legacyAgent == T_langchain \o <<".">> \o T_agent
T_oldType == <<"n","o","d","e","s","-","l","a","n","g","c","h","a","i","n",".","o","l","d">>

\* the node types a caller looks up
QueryTypes == {T_slackType, T_legacySlack, T_setType, T_agentType, T_legacyAgent,
               T_webhookType, T_oldType}

VARIABLES
    schema,         \* the tables nodes and metadata exist in data/nodes.db
    nodes,          \* table nodes, in rowid order
    metadata,       \* table metadata, in rowid order
    env,            \* the environment of the last started rebuild
    now,            \* the clock
    pc,             \* where the rebuild process is
    pkgIdx,         \* loadAllNodes: index of pkg in CORE_PACKAGES
    modIdx,         \* loadPackageNodes: index of nodePath in nodesList, 0 before the loop
    pkgNodes,       \* loadPackageNodes: nodes
    loaded,         \* loadAllNodes: results, then rebuild: nodes
    docsMap,        \* rebuild: docsMap
    nodeIdx,        \* rebuild: index of node in nodes
    successful,     \* rebuild: successful
    docsExtracted,  \* rebuild: docsExtracted
    metaIdx,        \* rebuild: which of the four metadata inserts is next
    console,        \* what the rebuild process has written to its console
    obs,            \* the response the query service is returning, if any
    built           \* history: input and outcome of the last completed rebuild

vars == <<schema, nodes, metadata, env, now, pc, pkgIdx, modIdx, pkgNodes,
          loaded, docsMap, nodeIdx, successful, docsExtracted, metaIdx, console,
          obs, built>>

dbVars == <<schema, nodes, metadata>>

loaderVars == <<pkgIdx, modIdx, pkgNodes, loaded>>

loopVars == <<nodeIdx, successful, docsExtracted, metaIdx>>

NoObs == [op |-> "none", arg |-> <<>>, limit |-> Absent, result |-> <<>>]

NoBuild == [exists |-> FALSE, env |-> Environment(<<>>, <<>>, <<>>), loaded |-> <<>>,
            nodes |-> <<>>, metadata |-> <<>>]

Out(kind, arg) == [stream |-> "stdout", kind |-> kind, arg |-> arg]
Err(kind, arg) == [stream |-> "stderr", kind |-> kind, arg |-> arg]

Init ==
    /\ schema = FALSE
    /\ nodes = <<>>
    /\ metadata = <<>>
    /\ env \in Environments
    /\ now = 0
    /\ pc = "idle"
    /\ pkgIdx = 1
    /\ modIdx = 0
    /\ pkgNodes = <<>>
    /\ loaded = <<>>
    /\ docsMap = <<>>
    /\ nodeIdx = 1
    /\ successful = 0
    /\ docsExtracted = 0
    /\ metaIdx = 1
    /\ console = <<>>
    /\ obs = NoObs
    /\ built = NoBuild

\* the script starts: N8N_VERSION is read, the database is opened and the
\* schema created if it does not exist
StartRebuild ==
    /\ pc = "idle"
    /\ \E e \in Environments, t \in {now, now + 1} :
          /\ t <= MaxClock
          /\ env' = e
          /\ now' = t
          /\ console' = <<Out("target", e.tag)>>
    /\ schema' = TRUE
    /\ pc' = "clearNodes"
    /\ pkgIdx' = 1 /\ modIdx' = 0 /\ pkgNodes' = <<>> /\ loaded' = <<>>
    /\ docsMap' = <<>>
    /\ obs' = NoObs
    /\ UNCHANGED <<nodes, metadata, loopVars, built>>

\* db.exec('DELETE FROM nodes')
ClearNodes ==
    /\ pc = "clearNodes"
    /\ nodes' = <<>>
    /\ pc' = "clearMeta"
    /\ obs' = NoObs
    /\ UNCHANGED <<schema, metadata, env, now, loaderVars, docsMap, loopVars,
                   console, built>>

\* a mutation of ClearMetadata: the rows stay
ClearMetadata_Keeps ==
    /\ pc = "clearMeta"
    /\ console' = Append(console, Out("cleared", <<>>))
    /\ pc' = "load"
    /\ obs' = NoObs
    /\ UNCHANGED <<schema, nodes, metadata, env, now, loaderVars, docsMap, loopVars, built>>

\* db.exec('DELETE FROM metadata')
ClearMetadata ==
    /\ pc = "clearMeta"
    /\ metadata' = <<>>
    /\ console' = Append(console, Out("cleared", <<>>))
    /\ pc' = "load"
    /\ obs' = NoObs
    /\ UNCHANGED <<schema, nodes, env, now, loaderVars, docsMap, loopVars, built>>

\* loadAllNodes goes on to the next package, or returns results to rebuild
NextPackage(results) ==
    /\ loaded' = results
    /\ modIdx' = 0
    /\ pkgNodes' = <<>>
    /\ IF pkgIdx < Len(CORE_PACKAGES)
       THEN pkgIdx' = pkgIdx + 1 /\ pc' = "load"
       ELSE pkgIdx' = pkgIdx /\ pc' = "fetchDocs"

\* the error ends the scan: loadAllNodes returns what it has
CatchPackageError_Aborts(pkg) ==
    /\ console' = console \o <<Out("package", pkg.name), Err("failedPackage", pkg.name)>>
    /\ loaded' = loaded
    /\ modIdx' = 0
    /\ pkgNodes' = <<>>
    /\ pkgIdx' = pkgIdx
    /\ pc' = "fetchDocs"

\* the catch block of loadAllNodes: the failure is logged and the loop goes on
CatchPackageError(pkg) ==
    /\ console' = console \o <<Out("package", pkg.name), Err("failedPackage", pkg.name)>>
    /\ NextPackage(loaded)

\* loadAllNodes, one package: require its package.json and, when it has a
\* non-empty list of nodes, enter loadPackageNodes' loop
LoadPackage ==
    /\ pc = "load"
    /\ modIdx = 0
    /\ LET pkg      == CORE_PACKAGES[pkgIdx]
           manifest == env.inst[pkgIdx]
       IN  IF ~manifest.found
           THEN CatchPackageError(pkg)
           ELSE IF ~manifest.isArray \/ manifest.nodes = <<>>
           THEN /\ console' = console \o <<Out("package", pkg.name),
                                           Out("found", IntToStr(Len(manifest.nodes)))>>
                /\ NextPackage(loaded)
           ELSE /\ console' = console \o <<Out("package", pkg.name),
                                           Out("found", IntToStr(Len(manifest.nodes)))>>
                /\ modIdx' = 1
                /\ pkgNodes' = <<>>
                /\ UNCHANGED <<pc, pkgIdx, loaded>>
    /\ obs' = NoObs
    /\ UNCHANGED <<dbVars, env, now, docsMap, loopVars, built>>

\* loadPackageNodes, one pass of its loop: a module that does not load is skipped
\* without a word; after the last module the package's nodes join the results
LoadModule ==
    /\ pc = "load"
    /\ modIdx >= 1
    /\ LET pkg       == CORE_PACKAGES[pkgIdx]
           nodesList == env.inst[pkgIdx].nodes
           got       == LoadOneModule(pkg.name, nodesList[modIdx])
       IN  /\ console' = console \o [i \in 1..Len(got) |-> Out("loaded", got[i].nodeName)]
           /\ IF modIdx < Len(nodesList)
              THEN /\ modIdx' = modIdx + 1
                   /\ pkgNodes' = pkgNodes \o got
                   /\ UNCHANGED <<pc, pkgIdx, loaded>>
              ELSE NextPackage(loaded \o pkgNodes \o got)
    /\ obs' = NoObs
    /\ UNCHANGED <<dbVars, env, now, docsMap, loopVars, built>>

\* docsExtracted kept from the run before instead of starting at 0
LetCounters_KeepsDocs ==
    /\ nodeIdx' = 1
    /\ successful' = 0
    /\ docsExtracted' = docsExtracted
    /\ metaIdx' = 1

\* let successful = 0; let docsExtracted = 0; and the loop starts at the first node
LetCounters ==
    /\ nodeIdx' = 1
    /\ successful' = 0
    /\ docsExtracted' = 0
    /\ metaIdx' = 1

\* fetchDocumentationFromGitHub returns the map of what GitHub serves for the
\* tag; the insert statement is prepared and the counters are declared
FetchDocs ==
    /\ pc = "fetchDocs"
    /\ docsMap' = env.github
    /\ LetCounters
    /\ console' = Append(console, Out("loadedTotal", IntToStr(Len(loaded))))
    /\ pc' = IF loaded = <<>> THEN "meta" ELSE "insert"
    /\ obs' = NoObs
    /\ UNCHANGED <<dbVars, env, now, loaderVars, built>>

\* an empty catch block: the failing node is skipped without a log line
CatchNodeError_Silent(node) ==
    /\ console' = console
    /\ UNCHANGED <<nodes, successful>>

\* the catch block of the for loop: the failure is logged with the node's name
CatchNodeError(node) ==
    /\ console' = Append(console, Err("failedNode", node.nodeName))
    /\ UNCHANGED <<nodes, successful>>

\* one pass of the for loop of rebuild (successful stays below 100, so the
\* progress line is never printed)
InsertNode ==
    /\ pc = "insert"
    /\ LET e == ExtractRow(loaded[nodeIdx], docsMap, now)
       IN  /\ docsExtracted' = IF e.hasDoc THEN docsExtracted + 1 ELSE docsExtracted
           /\ IF e.throws
              THEN CatchNodeError(loaded[nodeIdx])
              ELSE /\ nodes' = InsertOrReplace(nodes, e.row)
                   /\ successful' = successful + 1
                   /\ console' = console
    /\ nodeIdx' = nodeIdx + 1
    /\ pc' = IF nodeIdx < Len(loaded) THEN "insert" ELSE "meta"
    /\ obs' = NoObs
    /\ UNCHANGED <<schema, metadata, env, now, loaderVars, docsMap, metaIdx, built>>

\* one of the four INSERT INTO metadata statements
StoreMetadata ==
    /\ pc = "meta"
    /\ metadata' = Append(metadata, MetadataRows(env.tag, now, docsExtracted)[metaIdx])
    /\ metaIdx' = metaIdx + 1
    /\ pc' = IF metaIdx < Len(MetadataRows(env.tag, now, docsExtracted))
             THEN "meta" ELSE "close"
    /\ obs' = NoObs
    /\ UNCHANGED <<schema, nodes, env, now, loaderVars, docsMap, nodeIdx,
                   successful, docsExtracted, console, built>>

\* the summary is printed, db.close(), the process ends
CloseDb ==
    /\ pc = "close"
    /\ console' = console \o <<Out("processed", IntToStr(successful)),
                               Out("docs", IntToStr(docsExtracted))>>
    /\ built' = [exists |-> TRUE, env |-> env, loaded |-> loaded,
                 nodes |-> nodes, metadata |-> metadata]
    /\ pc' = "idle"
    /\ obs' = NoObs
    /\ UNCHANGED <<dbVars, env, now, loaderVars, docsMap, loopVars>>

rebuildVars == <<env, now, pc, pkgIdx, modIdx, pkgNodes, loaded, docsMap,
                 nodeIdx, successful, docsExtracted, metaIdx, console, built>>

\* the service is constructed on an existing database and handles one call at
\* a time
ServiceReady == schema /\ obs = NoObs

\* a caller of the service: searchNodes(keyword) or searchNodes(keyword, limit)
Search ==
    /\ ServiceReady
    /\ \E keyword \in Keywords, limit \in LimitArgs :
          obs' = [op |-> "searchNodes", arg |-> keyword, limit |-> limit,
                  result |-> searchNodes(nodes, keyword, ServiceLimit(limit))]
    /\ UNCHANGED <<dbVars, rebuildVars>>

\* a search_n8n_nodes tool call
ToolSearch ==
    /\ ServiceReady
    /\ \E keyword \in Keywords, limit \in LimitArgs :
          obs' = [op |-> "search_n8n_nodes", arg |-> keyword, limit |-> limit,
                  result |-> searchNodes(nodes, keyword, ToolLimit(limit))]
    /\ UNCHANGED <<dbVars, rebuildVars>>

\* getNodeInfo(nodeType)
GetNodeInfo ==
    /\ ServiceReady
    /\ \E nodeType \in QueryTypes :
          obs' = [op |-> "getNodeInfo", arg |-> nodeType, limit |-> Absent,
                  result |-> getNodeInfo(nodes, nodeType)]
    /\ UNCHANGED <<dbVars, rebuildVars>>

\* getStatistics() and getDatabaseVersion(), as one reader asks them together
GetStatistics ==
    /\ ServiceReady
    /\ obs' = [op |-> "getStatistics", arg |-> <<>>, limit |-> Absent,
               result |-> [totalNodes |-> TotalNodes(nodes),
                           version |-> getDatabaseVersion(metadata)]]
    /\ UNCHANGED <<dbVars, rebuildVars>>

(***************************************************************************)
(* fetchNodeCatalogFromGitHub: the catalogue of a release, read from the   *)
(* three package.json files raw.githubusercontent.com serves for a tag.    *)
(***************************************************************************)

\* what fetch() of one file gives: a response that is ok with its JSON body,
\* a response that is not ok, or a rejected promise
FetchOk(json) == [rejects |-> FALSE, ok |-> TRUE, json |-> json, statusText |-> <<"O","K">>]
FetchNotOk(statusText) == [rejects |-> FALSE, ok |-> FALSE, json |-> NoObj, statusText |-> statusText]
FetchRejects == [rejects |-> TRUE, ok |-> FALSE, json |-> NoObj, statusText |-> <<>>]

\* a package.json: its version and its n8n.nodes
PackageJson(version, n8nNodes) == [version |-> version, n8nNodes |-> n8nNodes]

\* the three files of a tag
Repo(cli, nodesBase, langchain) == [cli |-> cli, nodesBase |-> nodesBase, langchain |-> langchain]

T_master == <<"m","a","s","t","e","r">>
T_notFound == <<"N","o","t"," ","F","o","u","n","d">>
T_release == <<"2",".","0",".","3">>
F_cli == FetchOk(PackageJson(T_release, Absent))
F_base == FetchOk(PackageJson(T_release, Present(<<P_Slack, P_Set>>)))
F_baseBare == FetchOk(PackageJson(T_release, Absent))
F_langchain == FetchOk(PackageJson(T_release, Present(<<P_Agent>>)))
F_missing == FetchNotOk(T_notFound)
Repos == {Repo(F_cli, F_base, F_langchain), Repo(F_missing, F_base, F_langchain), Repo(FetchRejects, F_base, F_langchain), Repo(F_cli, F_missing, F_langchain), Repo(F_cli, F_base, F_missing), Repo(F_cli, F_baseBare, FetchRejects)}
TagArgs == {Absent, Present(T_tagDefault)}

\* a logger call
Log(level, message, arg) == [level |-> level, message |-> message, arg |-> arg]

\* what the call gives its caller: the catalogue, or the error it throws;
\* log is what it handed to the logger
Catalog(manifest, log) == [threw |-> FALSE, manifest |-> manifest, error |-> <<>>, log |-> log]
FetchError(error, log) == [threw |-> TRUE, manifest |-> NoObj, error |-> error, log |-> Append(log, Log("error", "Failed to fetch node catalog from GitHub", error))]

\* data.n8n?.nodes || []
NodesOf(json) == IF json.n8nNodes.has THEN json.n8nNodes.v ELSE <<>>

\* a mutation of fetchNodeCatalogFromGitHub: a langchain package that is not
\* there fails the call
fetchNodeCatalogFromGitHub_Strict(repo, versionOrBranch, t) ==
    LET log0 == <<Log("info", "Fetching node catalog from n8n GitHub", versionOrBranch)>>
        log1 == Append(log0, Log("info", "n8n version", repo.cli.json.version))
        nodeFiles == NodesOf(repo.nodesBase.json)
        log2 == Append(log1, Log("info", "nodes in nodes-base", Len(nodeFiles)))
    IN  IF repo.cli.rejects THEN FetchError(<<"fetch failed">>, log0)
        ELSE IF ~repo.cli.ok THEN FetchError(<<"Failed to fetch n8n version", versionOrBranch, repo.cli.statusText>>, log0)
        ELSE IF repo.nodesBase.rejects THEN FetchError(<<"fetch failed">>, log1)
        ELSE IF ~repo.nodesBase.ok THEN FetchError(<<"Failed to fetch nodes-base package", repo.nodesBase.statusText>>, log1)
        ELSE IF repo.langchain.rejects \/ ~repo.langchain.ok THEN FetchError(<<"fetch failed">>, log2)
        ELSE Catalog([version |-> repo.cli.json.version, fetchedFrom |-> versionOrBranch, nodesBase |-> nodeFiles, langchain |-> NodesOf(repo.langchain.json), timestamp |-> t],
                     Append(log2, Log("info", "langchain nodes", Len(NodesOf(repo.langchain.json)))))

\* fetchNodeCatalogFromGitHub(versionOrBranch) at time t
fetchNodeCatalogFromGitHub(repo, versionOrBranch, t) ==
    LET log0 == <<Log("info", "Fetching node catalog from n8n GitHub", versionOrBranch)>>
        log1 == Append(log0, Log("info", "n8n version", repo.cli.json.version))
        nodeFiles == NodesOf(repo.nodesBase.json)
        log2 == Append(log1, Log("info", "nodes in nodes-base", Len(nodeFiles)))
    IN  IF repo.cli.rejects THEN FetchError(<<"fetch failed">>, log0)
        ELSE IF ~repo.cli.ok THEN FetchError(<<"Failed to fetch n8n version", versionOrBranch, repo.cli.statusText>>, log0)
        ELSE IF repo.nodesBase.rejects THEN FetchError(<<"fetch failed">>, log1)
        ELSE IF ~repo.nodesBase.ok THEN FetchError(<<"Failed to fetch nodes-base package", repo.nodesBase.statusText>>, log1)
        ELSE IF repo.langchain.rejects THEN FetchError(<<"fetch failed">>, log2)
        ELSE IF repo.langchain.ok
             THEN Catalog([version |-> repo.cli.json.version, fetchedFrom |-> versionOrBranch, nodesBase |-> nodeFiles, langchain |-> NodesOf(repo.langchain.json), timestamp |-> t],
                          Append(log2, Log("info", "langchain nodes", Len(NodesOf(repo.langchain.json)))))
        ELSE Catalog([version |-> repo.cli.json.version, fetchedFrom |-> versionOrBranch, nodesBase |-> nodeFiles, langchain |-> <<>>, timestamp |-> t],
                     Append(log2, Log("warn", "Could not fetch langchain nodes", versionOrBranch)))

\* the default of the parameter
BranchOf(tagArg) == IF tagArg.has THEN tagArg.v ELSE T_master

\* a caller of fetchNodeCatalogFromGitHub() or fetchNodeCatalogFromGitHub(tag)
FetchCatalog ==
    /\ ServiceReady
    /\ \E repo \in Repos, tagArg \in TagArgs :
          obs' = [op |-> "fetchNodeCatalogFromGitHub", arg |-> <<repo>>, limit |-> tagArg,
                  result |-> fetchNodeCatalogFromGitHub(repo, BranchOf(tagArg), now)]
    /\ UNCHANGED <<dbVars, rebuildVars>>

\* a mutation of GetCategories: the call deletes the metadata
GetCategories_Writes ==
    /\ ServiceReady
    /\ obs' = [op |-> "getCategories", arg |-> <<>>, limit |-> Absent,
               result |-> getCategories(nodes)]
    /\ metadata' = <<>>
    /\ UNCHANGED <<schema, nodes, rebuildVars>>

\* getCategories()
GetCategories ==
    /\ ServiceReady
    /\ obs' = [op |-> "getCategories", arg |-> <<>>, limit |-> Absent,
               result |-> getCategories(nodes)]
    /\ UNCHANGED <<dbVars, rebuildVars>>

\* the categories a caller asks for
Categories == {T_AI, T_input}

\* getNodesByCategory(category)
GetNodesByCategory ==
    /\ ServiceReady
    /\ \E category \in Categories :
          obs' = [op |-> "getNodesByCategory", arg |-> category, limit |-> Absent,
                  result |-> getNodesByCategory(nodes, category)]
    /\ UNCHANGED <<dbVars, rebuildVars>>

\* getAINodes()
GetAINodes ==
    /\ ServiceReady
    /\ obs' = [op |-> "getAINodes", arg |-> <<>>, limit |-> Absent,
               result |-> getAINodes(nodes)]
    /\ UNCHANGED <<dbVars, rebuildVars>>

\* the response has been handed to the caller
Return ==
    /\ obs # NoObs
    /\ obs' = NoObs
    /\ UNCHANGED <<dbVars, rebuildVars>>

Next ==
    \/ StartRebuild
    \/ ClearNodes
    \/ ClearMetadata
    \/ LoadPackage
    \/ LoadModule
    \/ FetchDocs
    \/ InsertNode
    \/ StoreMetadata
    \/ CloseDb
    \/ Search
    \/ ToolSearch
    \/ GetNodeInfo
    \/ GetStatistics
    \/ GetCategories
    \/ GetNodesByCategory
    \/ GetAINodes
    \/ FetchCatalog
    \/ Return

Spec == Init /\ [][Next]_vars

(***************************************************************************)
(* N8nWorkflowService: the client of a running n8n instance.  The instance *)
(* is outside the program: a call sees the responses the instance gives to *)
(* its requests, in the order the requests are made.                       *)
(***************************************************************************)

\* a workflow as the instance stores it, with its node and connection data
Workflow(id, name) == [id |-> id, name |-> name, active |-> id = 1, nodes |-> <<"nodes", id>>, connections |-> <<"connections", id>>]

\* the responses to GET workflows?limit=100[&cursor=c]
PageResponse(data, nextCursor) == [kind |-> "page", data |-> data, nextCursor |-> nextCursor]
ArrayResponse(data) == [kind |-> "array", data |-> data]
ObjectResponse == [kind |-> "object"]
ErrorResponse(status) == [kind |-> "error", status |-> status]

\* an instance: its answers to the successive list requests and to a
\* GET workflows/<id>
Instance(list, getOk) == [list |-> list, getOk |-> getOk]

W_Alpha == <<"A","l","p","h","a">>
W_Beta == <<"B","e","t","a">>
W_Gamma == <<"G","a","m","m","a">>
W_Zeta == <<"Z","e","t","a">>
T_cursor2 == <<"c","2">>
T_cursor3 == <<"c","3">>
wfAlpha == Workflow(1, W_Alpha)
wfBeta == Workflow(2, W_Beta)
wfGamma == Workflow(3, W_Gamma)
wfAlphaCopy == Workflow(4, W_Alpha)

\* answers that end the listing, and answers that name a further page
LastAnswers == {PageResponse(<<wfGamma>>, NULL), PageResponse(<<wfAlphaCopy>>, <<>>), PageResponse(<<>>, NULL), ArrayResponse(<<wfGamma>>), ObjectResponse, ErrorResponse(500)}
FirstPage == PageResponse(<<wfAlpha, wfBeta>>, T_cursor2)
MiddlePage == PageResponse(<<wfGamma>>, T_cursor3)
Listings == {<<a>> : a \in LastAnswers} \cup {<<FirstPage, a>> : a \in LastAnswers} \cup {<<FirstPage, MiddlePage, a>> : a \in LastAnswers}
Instances == {Instance(l, ok) : l \in Listings, ok \in BOOLEAN}
WorkflowNames == {W_Alpha, W_Gamma, W_Zeta}

\* what a call of the service gives its caller: a value, or a thrown error;
\* requests are the cursors of the list requests it made
Returned(value, requests) == [threw |-> FALSE, value |-> value, error |-> <<>>, requests |-> requests]
Thrown(error, requests) == [threw |-> TRUE, value |-> <<>>, error |-> error, requests |-> requests]

\* the metadata listWorkflows keeps of a workflow
MinimalWorkflow(wf) == [id |-> wf.id, name |-> wf.name, active |-> wf.active]

\* listWorkflows(): the loop over the pages; n is the number of the request,
\* cursor what it sends, allWorkflows what the earlier pages gave
RECURSIVE listWorkflowsFrom(_, _, _, _, _)
listWorkflowsFrom(instance, n, cursor, allWorkflows, requests) ==
    LET response == instance.list[n]
        sent == Append(requests, cursor)
        Finish(all) == Returned([data |-> [i \in 1..Len(all) |-> MinimalWorkflow(all[i])], nextCursor |-> NULL], sent)
    IN  IF response.kind = "error" THEN Thrown(<<"HTTP", response.status>>, sent)
        ELSE IF response.kind = "array" THEN Finish(response.data)
        ELSE IF response.kind = "page"
             THEN IF TruthyText(response.nextCursor)
                  THEN listWorkflowsFrom(instance, n + 1, response.nextCursor, allWorkflows \o response.data, sent)
                  ELSE Finish(allWorkflows \o response.data)
        ELSE Thrown(<<"TypeError", "allWorkflows.map is not a function">>, sent)

listWorkflows(instance) == listWorkflowsFrom(instance, 1, NULL, <<>>, <<>>)

\* getWorkflow(workflowId)
getWorkflow(instance, workflow, requests) ==
    IF instance.getOk THEN Returned(workflow, requests) ELSE Thrown(<<"HTTP", 404>>, requests)

\* every workflow the instance lists, with its full data
RECURSIVE Stored(_, _)
Stored(instance, n) ==
    IF n > Len(instance.list) THEN <<>>
    ELSE (IF instance.list[n].kind \in {"page", "array"} THEN instance.list[n].data ELSE <<>>) \o Stored(instance, n + 1)

FullWorkflow(instance, id) ==
    LET all == Stored(instance, 1)
    IN  all[CHOOSE i \in 1..Len(all) : all[i].id = id]

\* getWorkflowByName(workflowName)
getWorkflowByName(instance, workflowName) ==
    LET workflows == listWorkflows(instance)
    IN  IF workflows.threw THEN workflows
        ELSE LET data == workflows.value.data
                 hits == {i \in 1..Len(data) : data[i].name = workflowName}
             IN  IF hits = {} THEN Thrown(<<"Workflow not found", workflowName>>, workflows.requests)
                 ELSE getWorkflow(instance, FullWorkflow(instance, data[CHOOSE i \in hits : \A j \in hits : i <= j].id), workflows.requests)

\* a caller of listWorkflows()
ListWorkflows ==
    /\ obs = NoObs
    /\ \E instance \in Instances :
          obs' = [op |-> "listWorkflows", arg |-> <<instance>>, limit |-> Absent,
                  result |-> listWorkflows(instance)]
    /\ UNCHANGED <<dbVars, rebuildVars>>

\* a caller of getWorkflowByName(workflowName)
GetWorkflowByName ==
    /\ obs = NoObs
    /\ \E instance \in Instances, workflowName \in WorkflowNames :
          obs' = [op |-> "getWorkflowByName", arg |-> <<instance>>, limit |-> Present(workflowName),
                  result |-> getWorkflowByName(instance, workflowName)]
    /\ UNCHANGED <<dbVars, rebuildVars>>

WorkflowNext ==
    \/ ListWorkflows
    \/ GetWorkflowByName
    \/ Return

WorkflowSpec == Init /\ [][WorkflowNext]_vars

(***************************************************************************)
(* A rebuild that does not run to its end: a statement of rebuild() throws *)
(* outside the per-node try, rebuild().catch prints the error and the      *)
(* process exits.  What the statements before it wrote stays in the file.  *)
(***************************************************************************)

\* rebuild().catch: console.error('Rebuild failed'), process.exit(1)
RebuildFails ==
    /\ pc \in {"clearNodes", "clearMeta", "load", "fetchDocs", "insert", "meta"}
    /\ console' = Append(console, Err("rebuildFailed", <<>>))
    /\ pc' = "idle"
    /\ obs' = NoObs
    /\ UNCHANGED <<dbVars, env, now, loaderVars, docsMap, loopVars, built>>

CrashNext ==
    \/ StartRebuild
    \/ ClearNodes
    \/ ClearMetadata
    \/ LoadPackage
    \/ LoadModule
    \/ FetchDocs
    \/ InsertNode
    \/ StoreMetadata
    \/ CloseDb
    \/ RebuildFails

CrashSpec == Init /\ [][CrashNext]_vars

(***************************************************************************)
(* extractDocumentation as a function of its arguments: the descriptors    *)
(* and documentation maps it is applied to.                                *)
(***************************************************************************)

D_plain == Param(T_channel, T_channel, NULL, NoObj)
D_described == Param(T_resource, NULL, T_msg, NoObj)
PropertyLists == {NoObj, NonArrayObj, Arr(<<>>), Arr(<<D_plain>>), Arr(<<D_plain, D_described>>)}
Codexes == {NoObj, NoCodex, [NoCodex EXCEPT !.categories = <<T_AI, T_chat>>], [NoCodex EXCEPT !.categories = <<>>], [NoCodex EXCEPT !.alias = <<>>], [NoCodex EXCEPT !.alias = <<T_chat, T_msg>>], [NoCodex EXCEPT !.resources = NonArrayObj], [NoCodex EXCEPT !.resources = Arr(<<[label |-> T_readme, url |-> T_slash]>>)], [NoCodex EXCEPT !.subcategories = Arr(<<[k |-> T_AI, v |-> <<T_chat>>]>>)]}
Texts == {NULL, <<>>, T_msg}
Descriptions == {[EmptyDescription EXCEPT !.name = T_set, !.displayName = dn, !.description = d, !.subtitle = s, !.properties = p, !.codex = c, !.hints = h] : dn \in {NULL, T_Set}, d \in Texts, s \in {NULL, T_chat}, p \in PropertyLists, c \in Codexes, h \in Texts}
DocEntries == {<<>>, <<[type |-> T_slackType, content |-> T_readme]>>, <<[type |-> T_setType, content |-> <<>>]>>, <<[type |-> T_setType, content |-> T_readme]>>}

\* a call of extractDocumentation(description, nodeType, githubDocs)
ExtractDocumentation ==
    /\ obs = NoObs
    /\ \E description \in Descriptions, githubDocs \in DocEntries :
          obs' = [op |-> "extractDocumentation", arg |-> <<description, githubDocs>>, limit |-> Absent,
                  result |-> extractDocumentation(description, T_setType, githubDocs)]
    /\ UNCHANGED <<dbVars, rebuildVars>>

DocNext ==
    \/ ExtractDocumentation
    \/ Return

DocSpec == Init /\ [][DocNext]_vars

(***************************************************************************)
(* The logger of the MCP server: LOG_LEVEL and MCP_MODE are read from the  *)
(* environment when the module is loaded.                                  *)
(***************************************************************************)

LogLevels == {"debug", "info", "warn", "error"}

\* const levels
levels == [debug |-> 0, info |-> 1, warn |-> 2, error |-> 3]

\* process.env.LOG_LEVEL || 'info'
LOG_LEVEL(envLevel) == IF envLevel.has /\ envLevel.v # "" THEN envLevel.v ELSE "info"

\* process.env.MCP_MODE === 'stdio'
MCP_MODE(envMode) == envMode.has /\ envMode.v = "stdio"

\* a mutation of shouldLog: every level passes
shouldLog_Always(level, configured) == TRUE

\* shouldLog(level): levels[LOG_LEVEL] is undefined for a name that is no
\* level, and no number is >= undefined
shouldLog(level, configured) ==
    IF configured \in LogLevels THEN levels[level] >= levels[configured] ELSE FALSE

\* level.toUpperCase()
UpperLevel == [debug |-> "DEBUG", info |-> "INFO", warn |-> "WARN", error |-> "ERROR"]

\* log(level, message): what the call writes to stdout and to stderr
log(level, message, envLevel, envMode) ==
    IF ~shouldLog(level, LOG_LEVEL(envLevel)) THEN [stdout |-> <<>>, stderr |-> <<>>]
    ELSE IF MCP_MODE(envMode)
         THEN [stdout |-> <<>>, stderr |-> <<[prefix |-> UpperLevel[level], message |-> message]>>]
         ELSE [stdout |-> <<[prefix |-> UpperLevel[level], message |-> message]>>, stderr |-> <<>>]

\* the values the two environment variables can have
LevelSettings == {Absent, Present(""), Present("debug"), Present("info"), Present("warn"), Present("error"), Present("verbose")}
ModeSettings == {Absent, Present("stdio"), Present("http")}
Messages == {T_msg, <<>>}

\* a call of logger.debug, logger.info, logger.warn or logger.error
LoggerCall ==
    /\ obs = NoObs
    /\ \E level \in LogLevels, message \in Messages, envLevel \in LevelSettings, envMode \in ModeSettings :
          obs' = [op |-> "log", arg |-> <<level, message, envLevel, envMode>>, limit |-> Absent,
                  result |-> log(level, message, envLevel, envMode)]
    /\ UNCHANGED <<dbVars, rebuildVars>>

LogNext ==
    \/ LoggerCall
    \/ Return

LogSpec == Init /\ [][LogNext]_vars

(***************************************************************************)
(* One pass of the for loop of rebuild as a function of the loaded node    *)
(* and the documentation map.                                              *)
(***************************************************************************)

\* the pass of the loop for a node of class cls loaded from a package
RebuildPass ==
    /\ obs = NoObs
    /\ \E cls \in ClassIds, p \in 1..Len(CORE_PACKAGES), githubDocs \in DocMaps :
          obs' = [op |-> "rebuildPass", arg |-> <<LoadedNode(CORE_PACKAGES[p].name, T_mixed, cls), githubDocs>>,
                  limit |-> Absent,
                  result |-> ExtractRow(LoadedNode(CORE_PACKAGES[p].name, T_mixed, cls), githubDocs, now)]
    /\ UNCHANGED <<dbVars, rebuildVars>>

PassNext ==
    \/ RebuildPass
    \/ Return

PassSpec == Init /\ [][PassNext]_vars

(***************************************************************************)
(* The database connections of the node service: constructor and close.    *)
(***************************************************************************)

\* path.resolve(process.cwd(), './data/nodes.db')
DefaultDbPath == "data/nodes.db"
\* path.resolve(process.cwd(), '../n8n-mcp/data/templates.db')
DefaultTemplatesDbPath == "../n8n-mcp/data/templates.db"

\* the database files there may be on disk
DbFiles == {DefaultDbPath, DefaultTemplatesDbPath, "custom/nodes.db", "custom/templates.db"}

\* a || b for an optional path argument: undefined and '' are falsy
OrPath(argument, default) == IF argument.has /\ argument.v # "" THEN argument.v ELSE default

\* a field that was never assigned
Undefined == [undefined |-> TRUE]

\* new Database(path, { readonly: true }): a connection, or an exception when
\* there is no such file
Database(path, files) ==
    IF path \in files THEN [threw |-> FALSE, connection |-> [path |-> path, open |-> TRUE]]
    ELSE [threw |-> TRUE, connection |-> Undefined]

\* new N8nNodeService(dbPath, templatesDbPath)
N8nNodeService(dbPath, templatesDbPath, files) ==
    LET resolvedDbPath == OrPath(dbPath, DefaultDbPath)
        resolvedTemplatesDbPath == OrPath(templatesDbPath, DefaultTemplatesDbPath)
        db == Database(resolvedDbPath, files)
        templatesDb == Database(resolvedTemplatesDbPath, files)
    IN  IF db.threw
        THEN [threw |-> TRUE, error |-> <<"Error", "Database connection failed">>,
              service |-> Undefined, warned |-> FALSE]
        ELSE [threw |-> FALSE, error |-> <<>>,
              service |-> [db |-> db.connection, templatesDb |-> templatesDb.connection],
              warned |-> templatesDb.threw]

\* connection.close()
Closed(connection) == [connection EXCEPT !.open = FALSE]

\* close(): this.db.close(); this.templatesDb.close();
close(service) ==
    IF service.templatesDb = Undefined
    THEN [threw |-> TRUE, error |-> <<"TypeError", "Cannot read properties of undefined (reading 'close')">>,
          service |-> [service EXCEPT !.db = Closed(service.db)]]
    ELSE [threw |-> FALSE, error |-> <<>>,
          service |-> [db |-> Closed(service.db), templatesDb |-> Closed(service.templatesDb)]]

PathArguments(custom) == {Absent, Present(""), Present(custom)}

\* the service is constructed over the files on disk
Construct ==
    /\ obs = NoObs
    /\ \E dbPath \in PathArguments("custom/nodes.db"),
          templatesDbPath \in PathArguments("custom/templates.db"),
          files \in SUBSET DbFiles :
          obs' = [op |-> "construct", arg |-> <<dbPath, templatesDbPath, files>>, limit |-> Absent,
                  result |-> N8nNodeService(dbPath, templatesDbPath, files)]
    /\ UNCHANGED <<dbVars, rebuildVars>>

\* close() is called on the constructed service
Close ==
    /\ obs.op = "construct"
    /\ ~obs.result.threw
    /\ obs' = [op |-> "close", arg |-> <<obs.result.service>>, limit |-> Absent,
               result |-> close(obs.result.service)]
    /\ UNCHANGED <<dbVars, rebuildVars>>

CloseNext ==
    \/ Construct
    \/ Close
    \/ Return

CloseSpec == Init /\ [][CloseNext]_vars

(***************************************************************************)
(* The protocol adapter: the tool list and the CallToolRequest handler.    *)
(***************************************************************************)

\* the names of the tool definitions, in the order of the list
tools ==
    << "search_n8n_nodes", "get_node_info", "list_node_categories", "get_nodes_by_category",
       "get_ai_nodes", "fetch_node_catalog_from_github", "get_database_version",
       "get_n8n_instance_info", "list_workflows", "get_workflow", "get_workflow_by_name",
       "toggle_workflow", "execute_workflow", "get_executions", "get_execution_details",
       "create_workflow", "update_workflow", "delete_workflow" >>

ToolNames == {tools[i] : i \in 1..Len(tools)}

\* a branch of the handler: the operation it calls and the fields of args it reads
Branch(service, operation, reads) == [service |-> service, operation |-> operation, reads |-> reads]
NoBranch == [service |-> "none", operation |-> "none", reads |-> <<>>]

WorkflowFields == <<"name", "nodes", "connections", "settings">>

\* the chain of `if (name === ...)` of the handler
BranchOfTool(name) ==
    CASE name = "search_n8n_nodes" -> Branch("nodeService", "searchNodes", <<"keyword", "limit">>)
      [] name = "get_node_info" -> Branch("nodeService", "getNodeInfo", <<"nodeType">>)
      [] name = "list_node_categories" -> Branch("nodeService", "getCategories", <<>>)
      [] name = "get_nodes_by_category" -> Branch("nodeService", "getNodesByCategory", <<"category">>)
      [] name = "get_ai_nodes" -> Branch("nodeService", "getAINodes", <<>>)
      [] name = "fetch_node_catalog_from_github" ->
            Branch("nodeService", "fetchNodeCatalogFromGitHub", <<"version">>)
      [] name = "get_database_version" -> Branch("nodeService", "getDatabaseVersion", <<>>)
      [] name = "get_n8n_instance_info" -> Branch("workflowService", "getInstanceInfo", <<>>)
      [] name = "list_workflows" -> Branch("workflowService", "listWorkflows", <<>>)
      [] name = "get_workflow" -> Branch("workflowService", "getWorkflow", <<"workflowId">>)
      [] name = "get_workflow_by_name" ->
            Branch("workflowService", "getWorkflowByName", <<"workflowName">>)
      [] name = "toggle_workflow" ->
            Branch("workflowService", "toggleWorkflow", <<"workflowId", "active">>)
      [] name = "execute_workflow" -> Branch("workflowService", "executeWorkflow", <<"workflowId">>)
      [] name = "get_executions" ->
            Branch("workflowService", "getExecutions", <<"workflowId", "limit">>)
      [] name = "get_execution_details" ->
            Branch("workflowService", "getExecutionDetails", <<"executionId">>)
      [] name = "create_workflow" -> Branch("workflowService", "createWorkflow", WorkflowFields)
      [] name = "update_workflow" ->
            Branch("workflowService", "updateWorkflow", <<"workflowId">> \o WorkflowFields)
      [] name = "delete_workflow" -> Branch("workflowService", "deleteWorkflow", <<"workflowId">>)
      [] OTHER -> NoBranch

\* request.params.arguments: undefined, or an object with some fields
NoArguments == [defined |-> FALSE, fields |-> <<>>]
Arguments(fields) == [defined |-> TRUE, fields |-> fields]

\* (args as any).field, with the `|| 10` and `|| 'master'` of the handler
ArgumentOf(args, field) ==
    IF field \in DOMAIN args.fields THEN Present(args.fields[field])
    ELSE IF field = "limit" THEN Present(10)
    ELSE IF field = "version" THEN Present("master")
    ELSE Absent

\* what the called operation does: it returns a value or throws an Error
Returns(value) == [threw |-> FALSE, value |-> value, message |-> <<>>]
Throws(message) == [threw |-> TRUE, value |-> [none |-> TRUE], message |-> message]

\* a result returned by the handler
ToolResult(text, isError, called) ==
    [escaped |-> FALSE, text |-> text, isError |-> isError, called |-> called, logged |-> isError]

\* a catch block that passes the error on
Catch_Rethrows(message, called) ==
    [escaped |-> TRUE, text |-> <<>>, isError |-> FALSE, called |-> called, logged |-> TRUE]

\* the catch block: logger.error and a result with isError true
Catch(message, called) == ToolResult(Stringify([error |-> message]), TRUE, called)

\* the text of the result of a branch that returned
ResultText(name, value) ==
    IF name = "get_database_version"
    THEN Stringify([databaseVersion |-> value,
                    databasePath |-> "../n8n-mcp/data/nodes.db",
                    note |-> IF value = [version |-> NULL] THEN "No version metadata found in database"
                             ELSE "Database contains nodes for n8n"])
    ELSE Stringify(value)

\* the handler of CallToolRequestSchema for request.params = {name, arguments: args},
\* when the operation it calls behaves as outcome
CallToolHandler(name, args, outcome) ==
    LET branch == BranchOfTool(name)
        call == [service |-> branch.service, operation |-> branch.operation,
                 arguments |-> [i \in 1..Len(branch.reads) |-> ArgumentOf(args, branch.reads[i])]]
    IN  IF branch = NoBranch THEN Catch(<<"Unknown tool: ", name>>, Absent)
        ELSE IF branch.reads # <<>> /\ ~args.defined
        THEN Catch(<<"Cannot read properties of undefined (reading '", branch.reads[1], "')">>, Absent)
        ELSE IF outcome.threw THEN Catch(outcome.message, Present(call))
        ELSE ToolResult(ResultText(name, outcome.value), FALSE, Present(call))

\* the argument objects of the requests
AllArguments ==
    [keyword |-> "slack", limit |-> 25, nodeType |-> "nodes-base.slack", category |-> "AI",
     version |-> "n8n@1.70.0", workflowId |-> "17", workflowName |-> "Alpha", active |-> TRUE,
     executionId |-> "301", name |-> "Alpha", nodes |-> <<>>, connections |-> <<>>,
     settings |-> <<>>]
ArgumentObjects == {NoArguments, Arguments(<<>>), Arguments(AllArguments)}

RequestedNames == ToolNames \cup {"", "drop_database"}

Outcomes ==
    {Returns([version |-> NULL]), Returns([rows |-> 2]),
     Throws(<<"HTTP 500: ", "Internal Server Error">>), Throws(<<"no such table: nodes">>)}

\* a tools/call request is handled
CallToolRequest ==
    /\ obs = NoObs
    /\ \E name \in RequestedNames, args \in ArgumentObjects, outcome \in Outcomes :
          obs' = [op |-> "callTool", arg |-> <<name, args, outcome>>, limit |-> Absent,
                  result |-> CallToolHandler(name, args, outcome)]
    /\ UNCHANGED <<dbVars, rebuildVars>>

ToolNext ==
    \/ CallToolRequest
    \/ Return

ToolSpec == Init /\ [][ToolNext]_vars

(***************************************************************************)
(* Properties.                                                             *)
(***************************************************************************)

\* every loaded node of the running (or last) rebuild has been processed
BuildWritten == pc \in {"meta", "close"} \/ (pc = "idle" /\ built.exists)

\* the row the loop of rebuild writes for the i-th loaded node
RowOfLoaded(i) == ExtractRow(loaded[i], docsMap, now).row

\* the i-th loaded node produces a row: its pass of the loop does not throw
Produces(i) == ~PassThrows(loaded[i])

\* the nodeType the i-th loaded node is stored under, NULL when it is not stored
TypeOfLoaded(i) ==
    IF Produces(i)
    THEN extractNodeType(getNodeDescription(ClassDef(loaded[i].NodeClass)),
                         loaded[i].packageName)
    ELSE NULL

\* the last loaded node that produces the same nodeType as the i-th
LastOfType(i) ==
    CHOOSE k \in 1..Len(loaded) :
        /\ TypeOfLoaded(k) = TypeOfLoaded(i)
        /\ \A m \in (k + 1)..Len(loaded) : TypeOfLoaded(m) # TypeOfLoaded(i)

RowsOfType(t) == {k \in 1..Len(nodes) : nodes[k].node_type = t}

\* C1: the nodes table never holds two rows of one nodeType, and once a rebuild
\* has processed its nodes each produced nodeType has exactly one row, which is
\* in every column the row of the last loaded node that produced that type
C1_OneRowPerTypeLastWins ==
    /\ \A i, j \in 1..Len(nodes) : nodes[i].node_type = nodes[j].node_type => i = j
    /\ BuildWritten =>
          \A i \in {n \in 1..Len(loaded) : Produces(n)} :
              /\ Cardinality(RowsOfType(TypeOfLoaded(i))) = 1
              /\ RowOfLoaded(LastOfType(i)) \in {nodes[k] : k \in 1..Len(nodes)}

\* C1 witness: a finished build in which two loaded nodes produced one type with
\* different rows; the stored row is the later one and has none of the
\* credentials the earlier one had
C1_Witness ==
    /\ pc = "close"
    /\ \E i, j \in {n \in 1..Len(loaded) : Produces(n)} :
          /\ i < j
          /\ RowOfLoaded(i).node_type = RowOfLoaded(j).node_type
          /\ RowOfLoaded(i).credentials_required # NULL
          /\ RowOfLoaded(j).credentials_required = NULL
          /\ \E k \in 1..Len(nodes) :
                nodes[k] = RowOfLoaded(j) /\ nodes[k].credentials_required = NULL

\* what a reader of the whole catalog sees when the store holds these tables
CatalogView(table, meta) ==
    [totalNodes |-> TotalNodes(table), version |-> getDatabaseVersion(meta)]

\* C2: a reader sees the complete previous build or the complete new build (the
\* new build is complete when the last metadata row is written), never a state
\* in between
C2_ReadersSeeACompleteBuild ==
    (obs.op = "getStatistics" /\ built.exists) =>
        \/ obs.result = CatalogView(built.nodes, built.metadata)
        \/ pc = "close"

\* the running rebuild has the input of the rebuild completed before it
SameInputAsLastBuild ==
    /\ built.exists
    /\ env = built.env
    /\ loaded = built.loaded
    /\ docsMap = built.env.github

RECURSIVE WithoutKey(_, _)
WithoutKey(meta, key) ==
    IF meta = <<>> THEN <<>>
    ELSE IF Head(meta).key = key THEN WithoutKey(Tail(meta), key)
    ELSE <<Head(meta)>> \o WithoutKey(Tail(meta), key)

\* the rows with the insertion time blanked
WithoutUpdatedAt(table) ==
    [i \in 1..Len(table) |-> [table[i] EXCEPT !.updated_at = <<>>]]

\* C3 as stated: a second rebuild from the same input leaves the same node rows,
\* field by field, and the same metadata apart from rebuilt_at
C3_IdenticalExceptBuiltAt ==
    (pc = "close" /\ SameInputAsLastBuild) =>
        /\ nodes = built.nodes
        /\ WithoutKey(metadata, T_rebuilt_at) = WithoutKey(built.metadata, T_rebuilt_at)

\* C3 amended: a second rebuild from the same input leaves the same node rows
\* apart from each row's updated_at, and the same metadata apart from rebuilt_at
C3_IdenticalExceptTimestamps ==
    (pc = "close" /\ SameInputAsLastBuild) =>
        /\ WithoutUpdatedAt(nodes) = WithoutUpdatedAt(built.nodes)
        /\ WithoutKey(metadata, T_rebuilt_at) = WithoutKey(built.metadata, T_rebuilt_at)

\* C3 witness: the second of two rebuilds from one input has written everything,
\* the clock having moved between them
C3_Witness ==
    /\ pc = "close"
    /\ SameInputAsLastBuild
    /\ Len(nodes) > 1
    /\ metadata # built.metadata

\* the response is a getNodeInfo result for a row of a finished rebuild
InfoOfBuiltRow == obs.op = "getNodeInfo" /\ obs.result.found /\ BuildWritten

\* the class of the loaded node that wrote the row a getNodeInfo response shows
ClassOfObserved ==
    ClassDef(loaded[CHOOSE k \in 1..Len(loaded) :
                        /\ RowOfLoaded(k).node_type = obs.result.row.node_type
                        /\ \A m \in (k + 1)..Len(loaded) :
                              RowOfLoaded(m).node_type # obs.result.row.node_type].NodeClass)

\* the class declares a set of versions: a per-version map or a version array
DeclaresVersionSet(cls) ==
    /\ ~NewThrows(cls)
    /\ \/ TruthyObj(cls.instance.nodeVersions)
       \/ (TruthyRec(cls.instance.description) /\ cls.instance.description.version.t = "arr")

\* the versions the class declares, as declared
DeclaredVersions(cls) ==
    IF NewThrows(cls) THEN <<>>
    ELSE IF TruthyObj(cls.instance.nodeVersions)
    THEN VersionKeys(cls.instance.nodeVersions)
    ELSE IF ~TruthyRec(cls.instance.description) THEN <<>>
    ELSE IF cls.instance.description.version.t = "arr"
    THEN cls.instance.description.version.a
    ELSE IF cls.instance.description.version.t = "num"
    THEN <<cls.instance.description.version.n>>
    ELSE <<>>

Elements(a) == {a[i] : i \in 1..Len(a)}

StrictlyDescending(a) == \A i \in 1..(Len(a) - 1) : a[i] > a[i + 1]

\* C4: the versions read back for a node that declares a version set
\* are strictly descending and are exactly the distinct declared versions
C4_VersionsStrictlyDescending ==
    (InfoOfBuiltRow /\ DeclaresVersionSet(ClassOfObserved)) =>
        /\ StrictlyDescending(obs.result.versions)
        /\ Elements(obs.result.versions) = Elements(DeclaredVersions(ClassOfObserved))

Max(a) == CHOOSE v \in Elements(a) : \A w \in Elements(a) : v >= w

\* C5: the latest version read back is the greatest declared version; the array
\* [1, 2, 2.6] is read back as [2.6, 2, 1] with latest 2.6, a single version v
\* as [v] with latest v
C5_LatestIsGreatest ==
    (InfoOfBuiltRow /\ DeclaredVersions(ClassOfObserved) # <<>>) =>
        LET declared == DeclaredVersions(ClassOfObserved)
        IN  /\ obs.result.latest_version = Present(Max(declared))
            /\ declared = <<10, 20, 26>> => obs.result.versions = <<26, 20, 10>>
            /\ ~DeclaresVersionSet(ClassOfObserved) =>
                  obs.result.versions = <<declared[1]>>

\* C5 witness: the node declaring [1, 2, 2.6] has been read back with latest 2.6
C5_Witness ==
    /\ InfoOfBuiltRow
    /\ DeclaredVersions(ClassOfObserved) = <<10, 20, 26>>
    /\ obs.result.versions = <<26, 20, 10>>
    /\ obs.result.latest_version = Present(26)

IsSearch == obs.op \in {"searchNodes", "search_n8n_nodes"}

\* the keyword occurs in the text, character for character, ASCII case aside
LiteralIn(field, keyword) ==
    /\ field # NULL
    /\ \E i \in 1..(Len(field) - Len(keyword) + 1) :
          \A k \in 1..Len(keyword) : LowerChar(field[i + k - 1]) = LowerChar(keyword[k])

RowHasKeyword(r, keyword) ==
    \/ LiteralIn(r.node_type, keyword)
    \/ LiteralIn(r.display_name, keyword)
    \/ LiteralIn(r.description, keyword)
    \/ LiteralIn(r.documentation, keyword)

StoredRow(nodeType) == nodes[CHOOSE k \in 1..Len(nodes) : nodes[k].node_type = nodeType]

\* C6: a search returns only nodes that hold the keyword as a literal substring
\* of their type, display name, description or documentation, nothing when no
\* node does, and with the default limit every node that does
C6_SearchIsLiteralSubstring ==
    IsSearch =>
        /\ \A i \in 1..Len(obs.result) :
              RowHasKeyword(StoredRow(obs.result[i].node_type), obs.arg)
        /\ ~obs.limit.has =>
              \A k \in 1..Len(nodes) :
                  RowHasKeyword(nodes[k], obs.arg) =>
                      \E i \in 1..Len(obs.result) : obs.result[i].node_type = nodes[k].node_type

HeavyColumns == {"documentation", "properties_schema", "credentials_required"}

C8_ResultsWithinLimit ==
    IsSearch =>
        Len(obs.result) <= (IF ~obs.limit.has THEN DEFAULT_LIMIT
                            ELSE IF obs.limit.v < 0 THEN 0 ELSE obs.limit.v)

\* loadAllNodes has returned
LoaderDone == pc = "fetchDocs"

PackageFound(p) == env.inst[p].found /\ env.inst[p].isArray

EntriesOf(p) == SelectSeq(loaded, LAMBDA n : n.packageName = CORE_PACKAGES[p].name)

ModulesOf(p) == IF PackageFound(p) THEN env.inst[p].nodes ELSE <<>>

FailingModules(p) == SelectSeq(ModulesOf(p), LAMBDA m : m.throws)

\* the modules that load and export a class
ClassModules(p) == SelectSeq(ModulesOf(p), LAMBDA m : ~m.throws /\ m.exports # <<>>)

\* the lines on the error stream that are not about a whole package
ModuleFailureLines ==
    {i \in 1..Len(console) : console[i].stream = "stderr" /\ console[i].kind # "failedPackage"}

NamesOf(entries) == [i \in 1..Len(entries) |-> entries[i].nodeName]

PathNames(modules) == [i \in 1..Len(modules) |-> NodeNameOf(modules[i].path)]

RECURSIVE ScanModules(_, _)
\* the entries a package's manifest yields, module by module
ScanModules(packageName, modules) ==
    IF modules = <<>> THEN <<>>
    ELSE LoadOneModule(packageName, Head(modules)) \o ScanModules(packageName, Tail(modules))

\* what scanning package p alone returns when its manifest is found
ScanOfFound(p) ==
    IF env.inst[p].found THEN ScanModules(CORE_PACKAGES[p].name, ModulesOf(p)) ELSE <<>>

\* C10: a package whose manifest cannot be located contributes no entry, and
\* the result is that of scanning the other packages alone, in their order
C10_MissingManifestSkipsPackage ==
    LoaderDone =>
        /\ \A p \in 1..Len(CORE_PACKAGES) : ~env.inst[p].found => EntriesOf(p) = <<>>
        /\ loaded = ScanOfFound(1) \o ScanOfFound(2)

\* C10 witness: the first package has no manifest and the second was scanned
C10_Witness ==
    /\ LoaderDone
    /\ ~env.inst[1].found
    /\ env.inst[2].found
    /\ Len(EntriesOf(2)) = 2
    /\ EntriesOf(1) = <<>>

\* the names the rebuild has logged as failed nodes, in the order logged
FailedNodeNames ==
    LET lines == SelectSeq(console, LAMBDA c : c = Err("failedNode", c.arg))
    IN  [i \in 1..Len(lines) |-> lines[i].arg]

\* the loaded nodes whose pass of the loop throws, in load order
ThrowingNodes == SelectSeq(loaded, LAMBDA n : PassThrows(n))

\* C11: once a rebuild has processed its nodes, each node whose extraction or
\* insertion threw has been logged by name and has no row, and every node that
\* does not throw, also one after a failing node, has its type stored
C11_NodeFailureIsLoggedAndSkipped ==
    BuildWritten =>
        /\ FailedNodeNames = [i \in 1..Len(ThrowingNodes) |-> ThrowingNodes[i].nodeName]
        /\ {nodes[k] : k \in 1..Len(nodes)}
              \subseteq {RowOfLoaded(i) : i \in {n \in 1..Len(loaded) : Produces(n)}}
        /\ \A j \in 1..Len(loaded) :
              Produces(j) => RowOfLoaded(LastOfType(j)) \in {nodes[k] : k \in 1..Len(nodes)}
        /\ successful = Len(loaded) - Len(ThrowingNodes)

\* C11 witness: a finished build in which one node threw in extraction, one in
\* the insert, and a node after both is stored
C11_Witness ==
    /\ pc = "close"
    /\ \E h, i, j \in 1..Len(loaded) :
          /\ h < j /\ i < j
          /\ extractOperationsThrows(getNodeDescription(ClassDef(loaded[h].NodeClass)))
          /\ ~Produces(i)
          /\ ~extractOperationsThrows(getNodeDescription(ClassDef(loaded[i].NodeClass)))
          /\ Produces(j)
          /\ \E k \in 1..Len(nodes) : nodes[k] = RowOfLoaded(j)
          /\ \E c \in 1..Len(console) : console[c] = Err("failedNode", loaded[h].nodeName)
          /\ \E c \in 1..Len(console) : console[c] = Err("failedNode", loaded[i].nodeName)

\* C12: once a rebuild has processed its nodes, every loaded node that cannot be
\* instantiated has a row of its own, with version "1" and both flags 0
C12_UninstantiableNodeHasOwnRow ==
    BuildWritten =>
        \A i \in 1..Len(loaded) :
            NewThrows(ClassDef(loaded[i].NodeClass)) =>
                \E k \in 1..Len(nodes) :
                    /\ nodes[k].package_name = loaded[i].packageName
                    /\ nodes[k].display_name = loaded[i].nodeName
                    /\ nodes[k].version = <<"1">>
                    /\ nodes[k].is_trigger = 0
                    /\ nodes[k].is_webhook = 0

\* the row's type is its package's prefix, a point and a name
HasPackagePrefix(r) ==
    IsPrefixAt(r.node_type, PackagePrefix(r.package_name) \o <<".">>, 1)

\* the legacy form of the row's type: the full package name in place of the prefix
LegacyType(r) ==
    r.package_name \o SubSeq(r.node_type, Len(PackagePrefix(r.package_name)) + 1,
                             Len(r.node_type))

\* C13: a lookup by the bare form of a stored row's type, and a lookup by its
\* legacy fully-prefixed form, both return that row
C13_BothFormsFindTheRow ==
    (obs.op = "getNodeInfo" /\ BuildWritten) =>
        \A k \in 1..Len(nodes) :
            (HasPackagePrefix(nodes[k]) /\ obs.arg \in {nodes[k].node_type, LegacyType(nodes[k])})
                => (obs.result.found /\ obs.result.row = nodes[k])

\* JSON.parse of the stored text throws
Unparseable(text) == ~ParsePayload(text).has

\* C14: in a getNodeInfo result each derived field is left out exactly when its
\* stored payload is empty or not parseable, and holds the parsed payload
\* otherwise: properties, operations_list, credentials, and latest_version,
\* which the code sets together with versions
C14_UnparseablePayloadOmitsField ==
    (obs.op = "getNodeInfo" /\ obs.result.found) =>
        LET r == obs.result.row
        IN  /\ obs.result.properties = ParsePayload(r.properties_schema)
            /\ obs.result.operations_list = ParsePayload(r.operations)
            /\ obs.result.credentials = ParsePayload(r.credentials_required)
            /\ (TruthyText(r.version) /\ ~JsonParseVersion(r.version).ok) =>
                  obs.result.latest_version = Absent

\* the names of the workflows a completed listing gave
ListedNames(instance) == {listWorkflows(instance).value.data[i].name : i \in 1..Len(listWorkflows(instance).value.data)}

\* C15: a lookup with no match hands its caller a not-found result and does not
\* raise: getNodeInfo of a type no row has, and getWorkflowByName of a name no
\* listed workflow has
C15_NoMatchIsNotFoundNotRaised ==
    /\ (obs.op = "getNodeInfo" /\ \A k \in 1..Len(nodes) : nodes[k].node_type # NormalizeType(obs.arg))
          => obs.result = NotFound
    /\ (obs.op = "getWorkflowByName" /\ ~listWorkflows(obs.arg[1]).threw /\ obs.limit.v \notin ListedNames(obs.arg[1]))
          => ~obs.result.threw

\* the files of the release the observed call asked for
FetchedRepo == obs.arg[1]

\* C16: the call throws and gives no manifest when the version file is not
\* retrieved; when the version file and the base list are retrieved and the
\* langchain package is missing, it returns the manifest with the version, the
\* tag asked for, the base list and an empty langchain list, and logs a warning
C16_VersionFileFatalLangchainNot ==
    obs.op = "fetchNodeCatalogFromGitHub" =>
        /\ (FetchedRepo.cli.rejects \/ ~FetchedRepo.cli.ok)
              => (obs.result.threw /\ obs.result.manifest = NoObj)
        /\ (FetchedRepo.cli.ok /\ FetchedRepo.nodesBase.ok /\ FetchedRepo.langchain = F_missing)
              => /\ ~obs.result.threw
                 /\ obs.result.manifest.version = FetchedRepo.cli.json.version
                 /\ obs.result.manifest.fetchedFrom = BranchOf(obs.limit)
                 /\ obs.result.manifest.nodesBase = NodesOf(FetchedRepo.nodesBase.json)
                 /\ obs.result.manifest.langchain = <<>>
                 /\ \E i \in 1..Len(obs.result.log) : obs.result.log[i].level = "warn"

C16_Witness ==
    /\ obs.op = "fetchNodeCatalogFromGitHub"
    /\ FetchedRepo.cli.ok /\ FetchedRepo.nodesBase.ok /\ FetchedRepo.langchain = F_missing
    /\ obs.limit.has
    /\ ~obs.result.threw
    /\ obs.result.manifest.nodesBase # <<>>

\* the descriptor has a parameter with a description
HasDescribedParameter(d) == IsArray(d.properties) /\ \E i \in 1..Len(d.properties.items) : TruthyText(d.properties.items[i].description)

\* the codex has categories, subcategories, a resource list or an alias
HasCodexContent(c) == c # NoObj /\ (c.categories # NULL \/ c.subcategories # NoObj \/ IsArray(c.resources) \/ (c.alias # NULL /\ c.alias # <<>>))

\* the descriptor has a description, a subtitle, a described parameter, codex
\* content or hints
HasDescriptiveContent(d) == TruthyText(d.description) \/ TruthyText(d.subtitle) \/ HasDescribedParameter(d) \/ HasCodexContent(d.codex) \/ TruthyText(d.hints)

RebuildCompleted == pc = "close" \/ (pc = "idle" /\ built.exists)

\* C18: after a completed rebuild for a tag the metadata table holds the rows of
\* the four keys n8n_version, rebuilt_at, source, docs_extracted of that rebuild
\* and nothing else, getDatabaseVersion gives the tag without its 'n8n@', and a
\* reader asking afterwards is given the version of the last completed rebuild
C18_MetadataIsOfTheLastRebuild ==
    RebuildCompleted =>
        /\ [i \in 1..Len(metadata) |-> metadata[i].key] = <<T_n8n_version, T_rebuilt_at, T_source, T_docs_extracted>>
        /\ metadata[2].value = TimeText(now)
        /\ metadata[3].value = T_localGithub
        /\ metadata[4].value = IntToStr(docsExtracted)
        /\ T_tagPrefix \o getDatabaseVersion(metadata) = env.tag
        /\ (obs.op = "getStatistics" /\ pc = "idle") => T_tagPrefix \o obs.result.version = built.env.tag

\* C18 witness: a rebuild for one tag has completed on a store that held the
\* build of another tag
C18_Witness ==
    /\ pc = "close"
    /\ built.exists
    /\ built.env.tag # env.tag
    /\ getDatabaseVersion(built.metadata) # getDatabaseVersion(metadata)
    /\ Len(metadata) = 4

\* C19: when no rebuild is running, the store holds the node rows and the
\* metadata of the last rebuild that ran to its end, whatever rebuilds were
\* started and stopped since
C19_StoppedRebuildKeepsPreviousBuild ==
    (pc = "idle" /\ built.exists) =>
        /\ nodes = built.nodes
        /\ metadata = built.metadata

\* C20: a step in which the query service or fetchNodeCatalogFromGitHub answers
\* a call changes neither the schema, the node rows nor the metadata, and
\* nothing else but the response handed to the caller; with no rebuild running,
\* the store is as the last rebuild left it
C20_ReadsLeaveTheStore ==
    /\ [][obs'.op # "none" => UNCHANGED <<schema, nodes, metadata, rebuildVars>>]_vars
    /\ []((pc = "idle" /\ built.exists) => (nodes = built.nodes /\ metadata = built.metadata))

\* C20 witness: the store of a finished rebuild after a query and a fetch of a
\* release's catalogue
C20_Witness ==
    /\ obs.op \in {"getCategories", "fetchNodeCatalogFromGitHub"}
    /\ pc = "idle"
    /\ built.exists
    /\ Len(nodes) > 1
    /\ nodes = built.nodes
    /\ metadata = built.metadata

\* the level LOG_LEVEL configures, when it names one
ConfiguredLevel == IF obs.arg[3].has /\ obs.arg[3].v # "" THEN obs.arg[3].v ELSE "info"

\* C21: with MCP_MODE=stdio a logger call writes nothing to stdout, whatever its
\* level; and with LOG_LEVEL naming a level, a call below that level writes
\* nothing anywhere and a call at or above it writes its one line
C21_StdioLogsToStderrByLevel ==
    obs.op = "log" =>
        /\ (obs.arg[4] = Present("stdio")) => obs.result.stdout = <<>>
        /\ (ConfiguredLevel \in LogLevels) =>
              IF levels[obs.arg[1]] < levels[ConfiguredLevel]
              THEN obs.result.stdout = <<>> /\ obs.result.stderr = <<>>
              ELSE Len(obs.result.stdout) + Len(obs.result.stderr) = 1

\* C21 witness: in stdio mode at LOG_LEVEL=warn, an error is written to stderr
C21_Witness ==
    /\ obs.op = "log"
    /\ obs.arg[4] = Present("stdio")
    /\ obs.arg[3] = Present("warn")
    /\ obs.arg[1] = "error"
    /\ Len(obs.result.stderr) = 1
    /\ obs.result.stdout = <<>>

\* the entries the map of the observed call has for the node's type
EntriesForType == {obs.arg[2][i].content : i \in {k \in 1..Len(obs.arg[2]) : obs.arg[2][k].type = T_setType}}

\* the documentation synthesized from the descriptor of the observed call
Synthesized == extractDocumentation(obs.arg[1], T_setType, <<>>)

\* C22: when the documentation map has an entry for the node's type, the
\* documentation is that entry and nothing synthesized; without an entry it is
\* the synthesized documentation
C22_EntryIsUsedVerbatim ==
    obs.op = "extractDocumentation" =>
        /\ \A entry \in EntriesForType : obs.result = entry
        /\ EntriesForType = {} => obs.result = Synthesized

\* C22 amended: when the documentation map has a non-empty entry for the node's
\* type, the documentation is that entry and nothing synthesized; without an
\* entry, or with an empty one, it is the synthesized documentation
C22_NonEmptyEntryIsUsedVerbatim ==
    obs.op = "extractDocumentation" =>
        /\ \A entry \in EntriesForType \ {<<>>} : obs.result = entry
        /\ EntriesForType \subseteq {<<>>} => obs.result = Synthesized

\* C22 witness: a descriptor with a description of its own, and a map with a
\* README for its type
C22_Witness ==
    /\ obs.op = "extractDocumentation"
    /\ EntriesForType = {T_readme}
    /\ TruthyText(obs.arg[1].description)
    /\ Synthesized # NULL
    /\ obs.result = T_readme

\* the package prefix the stored types of a package carry
PrefixOfPackage(packageName) ==
    IF packageName = T_base THEN <<"n","o","d","e","s","-","b","a","s","e">>
    ELSE <<"n","o","d","e","s","-","l","a","n","g","c","h","a","i","n">>

\* the name the descriptor of the i-th loaded node declares
DeclaredName(i) == getNodeDescription(ClassDef(loaded[i].NodeClass)).name

\* C23: the nodeType a node is stored under is its declared name when that name
\* contains '.', and otherwise the package prefix, '.', and the declared name;
\* so every stored nodeType contains the separator
C23_TypeIsPrefixDotName ==
    BuildWritten =>
        \A i \in {n \in 1..Len(loaded) : Produces(n)} :
            /\ RowOfLoaded(i).node_type =
                  IF Includes(DeclaredName(i), <<".">>) THEN DeclaredName(i)
                  ELSE PrefixOfPackage(loaded[i].packageName) \o <<".">> \o DeclaredName(i)
            /\ Includes(RowOfLoaded(i).node_type, <<".">>)

\* the descriptor of the node of the observed pass
PassDescription == getNodeDescription(ClassDef(obs.arg[1].NodeClass))

\* the pass of the loop that is observed wrote a row
PassWroteRow == obs.op = "rebuildPass" /\ ~obs.result.throws

\* the text has the pattern somewhere in it
HasSubstring(text, pat) == \E i \in 1..Len(text) : i + Len(pat) - 1 <= Len(text) /\ SubSeq(text, i, i + Len(pat) - 1) = pat

\* C24: a row has is_trigger = 1 exactly when its descriptor declares polling
\* or trigger or its category is 'trigger', and is_webhook = 1 exactly when its
\* descriptor declares webhook or its nodeType contains "webhook"
C24_TriggerAndWebhookFlags ==
    PassWroteRow =>
        /\ obs.result.row.is_trigger \in {0, 1}
        /\ obs.result.row.is_webhook \in {0, 1}
        /\ obs.result.row.is_trigger = 1 <=>
              (PassDescription.polling \/ PassDescription.trigger \/ obs.result.row.category = T_trigger)
        /\ obs.result.row.is_webhook = 1 <=>
              (PassDescription.webhook \/ HasSubstring(obs.result.row.node_type, T_webhook))

\* C24 witness: a row that is a webhook by its type name alone, and no trigger
C24_Witness ==
    /\ PassWroteRow
    /\ ~PassDescription.webhook
    /\ obs.result.row.is_webhook = 1
    /\ obs.result.row.is_trigger = 0

\* the parameters of the observed pass's descriptor that are named 'operation'
\* or 'resource', by their place in the list
OperationParameters ==
    {i \in 1..Len(PassDescription.properties.items) :
        PassDescription.properties.items[i].name \in {T_operation, T_resource}}

\* the parameter declares a fixed option set
HasOptions(i) == PassDescription.properties.items[i].options # NoObj

\* the serialized option set of the i-th parameter
SerializedOptions(i) == Stringify(PassDescription.properties.items[i].options.items)

\* C25: the stored operations is the serialized option set of a parameter named
\* 'operation' or 'resource' whenever the list has such a parameter with an
\* option set, wherever it stands, and NULL otherwise
C25_OperationsOfAnyOperationParameter ==
    (PassWroteRow /\ PassDescription.properties # NoObj) =>
        IF \E i \in OperationParameters : HasOptions(i)
        THEN \E i \in OperationParameters : HasOptions(i) /\ obs.result.row.operations = SerializedOptions(i)
        ELSE obs.result.row.operations = NULL

\* C25 amended: the stored operations is the serialized option set of the
\* first parameter named 'operation' or 'resource' when that parameter has an
\* option set, and NULL otherwise
C25_OperationsOfFirstOperationParameter ==
    (PassWroteRow /\ PassDescription.properties # NoObj) =>
        IF \E i \in OperationParameters : HasOptions(i) /\ \A k \in OperationParameters : i <= k
        THEN \A i \in OperationParameters :
                (\A k \in OperationParameters : i <= k) => obs.result.row.operations = SerializedOptions(i)
        ELSE obs.result.row.operations = NULL

\* C25 witness: the first such parameter is 'resource', behind another
\* parameter and before 'operation', and its option set is stored
C25_Witness ==
    /\ PassWroteRow
    /\ obs.arg[1].NodeClass = "ResFirst"
    /\ obs.result.row.operations = Stringify(O_channel.items)

\* the rows of the nodes table that have a documentation
DocumentedRows == {k \in 1..Len(nodes) : nodes[k].documentation # NULL}

\* C26: after a completed rebuild the stored docs_extracted is the number of
\* node rows whose documentation is not NULL
C26_DocsExtractedCountsDocumentedRows ==
    RebuildCompleted =>
        \A m \in 1..Len(metadata) :
            metadata[m].key = T_docs_extracted => metadata[m].value = IntToStr(Cardinality(DocumentedRows))

\* the rows whose stored category is 'AI'
AiCategoryRows == {nodes[k] : k \in {n \in 1..Len(nodes) : nodes[n].category = T_AI}}

Answers == SubSeq(obs.arg[1].list, 1, Len(obs.result.requests))

\* the answer names a further page
HasNextCursor(answer) == answer.kind = "page" /\ answer.nextCursor # NULL /\ answer.nextCursor # <<>>

RECURSIVE WorkflowsOf(_)
\* the workflows of the answers, in the order they were fetched
WorkflowsOf(answers) ==
    IF answers = <<>> THEN <<>>
    ELSE WorkflowsOf(SubSeq(answers, 1, Len(answers) - 1)) \o answers[Len(answers)].data

\* C28: a listWorkflows call that returns has sent each request with the cursor
\* of the answer before it, has stopped at the first answer without a
\* nextCursor, and returns the workflows of all the answers it got, in order,
\* with nextCursor null
C28_ListFollowsCursorAndKeepsPages ==
    (obs.op = "listWorkflows" /\ ~obs.result.threw) =>
        /\ obs.result.requests[1] = NULL
        /\ \A i \in 2..Len(Answers) : obs.result.requests[i] = Answers[i - 1].nextCursor
        /\ \A i \in 1..(Len(Answers) - 1) : HasNextCursor(Answers[i])
        /\ ~HasNextCursor(Answers[Len(Answers)])
        /\ [i \in 1..Len(obs.result.value.data) |-> obs.result.value.data[i].id]
              = [i \in 1..Len(WorkflowsOf(Answers)) |-> WorkflowsOf(Answers)[i].id]
        /\ obs.result.value.nextCursor = NULL

\* the connections the constructor opened for the service that close() was
\* called on
OpenedConnections == {obs.arg[1].db} \cup ({obs.arg[1].templatesDb} \ {Undefined})

\* C30: close() on a constructed service completes without error and leaves
\* every connection the constructor opened closed, with or without the
\* templates database
C30_CloseClosesEveryConnection ==
    obs.op = "close" =>
        /\ ~obs.result.threw
        /\ \A c \in OpenedConnections :
              Closed(c) \in {obs.result.service.db, obs.result.service.templatesDb}

\* C29: a tool call never ends in an exception leaving the handler; a call
\* of an advertised tool reaches a service operation (whenever its arguments
\* can be read), a call with an unknown name reaches none and returns isError
\* with 'Unknown tool: <name>', and a call whose operation throws returns
\* isError with the message of the error
C29_ToolCallsEndInResults ==
    obs.op = "callTool" =>
        /\ ~obs.result.escaped
        /\ (obs.arg[1] \in ToolNames /\ obs.arg[2].defined) =>
              /\ obs.result.called.has
              /\ obs.result.isError = obs.arg[3].threw
        /\ obs.arg[1] \notin ToolNames =>
              /\ ~obs.result.called.has
              /\ obs.result.isError
              /\ obs.result.text = Stringify([error |-> <<"Unknown tool: ", obs.arg[1]>>])
        /\ (obs.result.called.has /\ obs.arg[3].threw) =>
              /\ obs.result.isError
              /\ obs.result.text = Stringify([error |-> obs.arg[3].message])

\* the operation called for delete_workflow threw and the handler returned an error result
C29_Witness ==
    /\ obs.op = "callTool"
    /\ obs.arg[1] = "delete_workflow"
    /\ obs.result.called.has
    /\ obs.result.called.v.operation = "deleteWorkflow"
    /\ obs.arg[3].threw
    /\ obs.result.isError

=============================================================================
